---- MODULE Spec2Model ----
(***************************************************************************)
(* Model of the JIRA/Tempo -> Odoo worklog sync (main.py, tempo.py,        *)
(* jira.py, odoo.py, email_notifier.py).                                   *)
(*                                                                         *)
(* The three remote services are the environment: every remote call draws  *)
(* its response from a small set.  Python values are modelled as:          *)
(*   keys, labels   strings; None among them is the string "None"          *)
(*   text           a sequence of one-character strings ("" is <<>>)       *)
(*   Optional[int]  <<n>> for the number n, <<>> (Nil) for None            *)
(*   hours (float)  an integer number of hundredths of an hour             *)
(*   an exception   the name of its class in a field "raised"              *)
(***************************************************************************)
EXTENDS Integers, Sequences, FiniteSets, TLC

VARIABLES
    pc,             \* position of main(): "idle", "enrich", "process", "done"
    exit,           \* how the last pass of main() ended
    tempo_worklogs, \* main(): the list get_tempo_worklogs() returned
    enriched,       \* main(): enriched_worklogs
    idx,            \* main(): number of records the current loop has consumed
    outcomes,       \* per enriched record, the return path taken by the sync
    sync_count,     \* main(): sync_count
    skip_count,     \* main(): skip_count
    last,           \* the calls and results of the record processed last
    connected,      \* OdooClient.connected
    employee_cache, \* OdooClient._employee_cache
    lines,          \* Odoo: the account.analytic.line table
    sync_errors,    \* EmailNotifier.sync_errors
    sent,           \* e-mails handed to SMTP (EmailNotifier.send_email)
    cfg,            \* process configuration read from the environment
    fn              \* function-level harness: operation, input and result

mainVars == <<pc, exit, tempo_worklogs, enriched, idx, outcomes,
              sync_count, skip_count, last>>
odooVars == <<connected, employee_cache, lines>>
notifierVars == <<sync_errors, sent>>
vars == <<mainVars, odooVars, notifierVars, cfg, fn>>

None == "None"
Nil == <<>>

\* Bounds of the model.
MaxBatch == 3
MaxSeconds == 3700

(***************************************************************************)
(* Python helpers                                                          *)
(***************************************************************************)

\* Python truthiness of an Optional[int]: None and 0 are falsy.
TruthyInt(v) == v # Nil /\ v[1] # 0

\* Python truthiness of a string-valued field: None and "" are falsy.
TruthyStr(v) == v # None /\ v # ""

Contains(s, x) == \E k \in 1..Len(s) : s[k] = x

(***************************************************************************)
(* Text: Python str operations on sequences of characters                  *)
(***************************************************************************)

\* sub in s
IsAt(s, sub, k) == k + Len(sub) - 1 <= Len(s) /\ SubSeq(s, k, k + Len(sub) - 1) = sub

\* s.find(sub) + 1: the first position of sub in s, 0 when there is none.
Find(s, sub) ==
    IF \E k \in 1..Len(s) : IsAt(s, sub, k)
    THEN CHOOSE k \in 1..Len(s) : IsAt(s, sub, k) /\ \A j \in 1..(k - 1) : ~IsAt(s, sub, j)
    ELSE 0

\* s.split(sep)
RECURSIVE Split(_, _)
Split(s, sep) ==
    LET k == Find(s, sep) IN
    IF k = 0 THEN <<s>>
    ELSE <<SubSeq(s, 1, k - 1)>> \o Split(SubSeq(s, k + Len(sep), Len(s)), sep)

\* s.replace(old, new)
RECURSIVE Replace(_, _, _)
Replace(s, old, new) ==
    LET k == Find(s, old) IN
    IF k = 0 THEN s
    ELSE SubSeq(s, 1, k - 1) \o new \o Replace(SubSeq(s, k + Len(old), Len(s)), old, new)

Digits == <<"0", "1", "2", "3", "4", "5", "6", "7", "8", "9">>
IsDigit(ch) == \E d \in 1..10 : Digits[d] = ch
DigitVal(ch) == (CHOOSE d \in 1..10 : Digits[d] = ch) - 1

\* s.strip() for the blank character
RECURSIVE Strip(_)
Strip(s) ==
    IF s # <<>> /\ s[1] = " " THEN Strip(Tail(s))
    ELSE IF s # <<>> /\ s[Len(s)] = " " THEN Strip(SubSeq(s, 1, Len(s) - 1))
    ELSE s

RECURSIVE DigitsVal(_, _)
DigitsVal(s, acc) ==
    IF s = <<>> THEN acc
    ELSE IF s[1] = "_" THEN DigitsVal(Tail(s), acc)
    ELSE DigitsVal(Tail(s), 10 * acc + DigitVal(s[1]))

\* The digit groups int() accepts: digits, single underscores between them.
IsNumeral(s) ==
    /\ s # <<>>
    /\ IsDigit(s[1]) /\ IsDigit(s[Len(s)])
    /\ \A k \in 1..Len(s) : IsDigit(s[k]) \/ s[k] = "_"
    /\ \A k \in 1..(Len(s) - 1) : ~(s[k] = "_" /\ s[k + 1] = "_")

\* int(s) of a str: [ok, val]; ok is FALSE where int() raises ValueError.
IntOf(s) ==
    LET t == Strip(s)
        signed == t # <<>> /\ t[1] \in {"+", "-"}
        body == IF signed THEN Tail(t) ELSE t
    IN IF ~IsNumeral(body) THEN [ok |-> FALSE, val |-> 0]
       ELSE [ok |-> TRUE,
             val |-> IF signed /\ t[1] = "-" THEN 0 - DigitsVal(body, 0)
                     ELSE DigitsVal(body, 0)]

TokId == <<"i", "d", "=">>
TokAmp == <<"&">>
TokModel == <<"m", "o", "d", "e", "l", "=">>
\* The escape in lower case, which str.replace('%2E', '.') does not match.
\* Used to show that C11_ParseTargetRef depends on the decoding.
TokPct2ELower == <<"%", "2", "e">>
TokPct2E == <<"%", "2", "E">>
TokDot == <<".">>
\* Odoo URLs found in the linking field customfield_10134.
UrlTask == <<"w", "e", "b", "#", "i", "d", "=", "7", "3", "4", "6", "&", "m", "o", "d", "e", "l", "=", "p", "r", "o", "j", "e", "c", "t", ".", "t", "a", "s", "k">>
UrlTicket == <<"w", "e", "b", "#", "i", "d", "=", "1", "2", "&", "m", "o", "d", "e", "l", "=", "h", "e", "l", "p", "d", "e", "s", "k", "%", "2", "E", "t", "i", "c", "k", "e", "t">>
UrlNoModel == <<"w", "e", "b", "#", "i", "d", "=", "7", "3", "4", "6">>
UrlNoId == <<"n", "o", "-", "i", "d", "-", "h", "e", "r", "e">>
UrlZeroId == <<"w", "e", "b", "#", "i", "d", "=", "0", "&", "m", "o", "d", "e", "l", "=", "p", "r", "o", "j", "e", "c", "t", ".", "t", "a", "s", "k">>
UrlBadId == <<"w", "e", "b", "#", "i", "d", "=", "x", "1", "&", "m", "o", "d", "e", "l", "=", "p", "r", "o", "j", "e", "c", "t", ".", "t", "a", "s", "k">>

ProjectTask == <<"p", "r", "o", "j", "e", "c", "t", ".", "t", "a", "s", "k">>
HelpdeskTicket == <<"h", "e", "l", "p", "d", "e", "s", "k", ".", "t", "i", "c", "k", "e", "t">>

(***************************************************************************)
(* email_notifier.py                                                       *)
(***************************************************************************)

\* The methods class EmailNotifier defines.
NotifierMethods ==
    {"is_configured", "start_sync_session", "collect_error",
     "send_sync_summary_email", "send_critical_error_immediate",
     "load_error_state", "save_error_state", "clear_error_state",
     "send_email"}

\* EmailNotifier.is_configured
is_configured(c) ==
    IF ~c.enabled THEN FALSE
    ELSE c.from_email /\ c.password /\ c.to_email

\* EmailNotifier.collect_error: the buffer after the call.
collect_error(c, errs, context, severity) ==
    IF ~is_configured(c) THEN errs
    ELSE Append(errs, [severity |-> severity, context |-> context])

\* EmailNotifier.start_sync_session: the buffer after the call.
start_sync_session(errs) == <<>>

\* Outcomes of the SMTP session once the connection is requested.
SmtpResponses == {"ok", "fail"}

\* EmailNotifier.send_email: [ret, raised, sent].  `sent` is the log of the
\* SMTP sessions opened (smtplib.SMTP(server, port)), each with the kind of
\* message and its outcome; with an empty server name the session connects
\* to nothing and starttls() raises.
send_email(c, mails, kind, smtp) ==
    IF ~c.to_email THEN [ret |-> FALSE, raised |-> "ValueError", sent |-> mails]
    ELSE IF ~c.from_email THEN [ret |-> FALSE, raised |-> None, sent |-> mails]
    ELSE IF ~c.smtp_server THEN
        [ret |-> FALSE, raised |-> None,
         sent |-> Append(mails, [kind |-> kind, outcome |-> "no_host"])]
    ELSE IF ~c.password \/ smtp # "ok" THEN
        [ret |-> FALSE, raised |-> None,
         sent |-> Append(mails, [kind |-> kind, outcome |-> "failed"])]
    ELSE [ret |-> TRUE, raised |-> None,
          sent |-> Append(mails, [kind |-> kind, outcome |-> "delivered"])]

\* A summary that keeps the buffer when the transport fails.  Used to show
\* that C12_SummaryFlush depends on the unconditional clearing.
SendSummaryKeepOnFailure(c, errs, mails, smtp) ==
    IF ~is_configured(c) \/ errs = <<>> THEN [errs |-> errs, sent |-> mails, raised |-> None]
    ELSE LET r == send_email(c, mails, "summary", smtp) IN
         [errs |-> IF r.ret THEN <<>> ELSE errs, sent |-> r.sent, raised |-> r.raised]

\* EmailNotifier.send_sync_summary_email: [errs, sent, raised].
send_sync_summary_email(c, errs, mails, smtp) ==
    IF ~is_configured(c) THEN [errs |-> errs, sent |-> mails, raised |-> None]
    ELSE IF errs = <<>> THEN [errs |-> errs, sent |-> mails, raised |-> None]
    ELSE LET r == send_email(c, mails, "summary", smtp) IN
         IF r.raised # None THEN [errs |-> errs, sent |-> r.sent, raised |-> r.raised]
         ELSE [errs |-> <<>>, sent |-> r.sent, raised |-> None]

\* An immediate report that goes through the buffer: the error is
\* collected and the buffer is sent and cleared.  Used to show that
\* C34_ImmediateBypassesBuffer depends on the function not touching
\* sync_errors.
SendCriticalThroughBuffer(c, errs, mails, smtp) ==
    send_sync_summary_email(c, collect_error(c, errs, "Critical", "critical"),
                            mails, smtp)

\* EmailNotifier.send_critical_error_immediate: [errs, sent, raised].
send_critical_error_immediate(c, errs, mails, smtp) ==
    IF ~is_configured(c) THEN [errs |-> errs, sent |-> mails, raised |-> None]
    ELSE LET r == send_email(c, mails, "critical", smtp) IN
         [errs |-> errs, sent |-> r.sent, raised |-> r.raised]

(***************************************************************************)
(* odoo.py: the client.  A client operation takes the process state        *)
(*   st = [connected, cache, errs, lines, calls]                           *)
(* and the responses of the remote calls it may issue, and returns its     *)
(* return value with the state it leaves.  st.calls is the log of the      *)
(* function and remote calls made so far for the current record.           *)
(***************************************************************************)

Call(st, name) == [st EXCEPT !.calls = Append(@, name)]

Collect(c, st, context, severity) ==
    [st EXCEPT !.errs = collect_error(c, @, context, severity)]

\* Responses of common.authenticate.
AuthResponses == {"uid", "nouid", "protocol", "other"}

\* A connect that authenticates at every call.  Used to show that
\* C19_ConnectOnce depends on the test of self.connected.
ConnectWithoutMemo(c, st, auth) ==
    LET s1 == Call(st, "authenticate") IN
    IF auth = "uid"
    THEN [ret |-> TRUE, st |-> [s1 EXCEPT !.connected = TRUE]]
    ELSE [ret |-> FALSE,
          st |-> Collect(c, [s1 EXCEPT !.connected = FALSE], "Odoo connect failure",
                         "critical")]

\* OdooClient.connect.  Its three failures (no uid, a transport or protocol
\* error, any other exception) each collect one critical error; the three
\* context texts are recorded as the one text "Odoo connect failure".
connect(c, st, auth) ==
    IF st.connected THEN [ret |-> TRUE, st |-> st]
    ELSE LET s1 == Call(st, "authenticate") IN
         IF auth = "uid"
         THEN [ret |-> TRUE, st |-> [s1 EXCEPT !.connected = TRUE]]
         ELSE [ret |-> FALSE, st |-> Collect(c, s1, "Odoo connect failure", "critical")]

\* str(n) of an integer, as text compared by the search domain.
str(n) == ToString(n)

KeyOnLine(ls, key) ==
    \E k \in 1..Len(ls) : ls[k].x_jira_worklog_id = key

\* Responses of the account.analytic.line search other than its result.
SearchResponses == {"ok", "fault", "exc"}

\* A duplicate check that answers True when the search cannot be
\* performed.  Used to show that C37_FailedCheckContinues depends on the
\* False the failure branches return.
CheckFailingClosed(c, st, tempo_worklog_id, auth, search) ==
    IF ~TruthyInt(tempo_worklog_id) THEN [ret |-> FALSE, st |-> st]
    ELSE LET cn == connect(c, st, auth) IN
         IF ~cn.ret THEN [ret |-> TRUE, st |-> cn.st]
         ELSE LET s1 == Call(cn.st, "search") IN
              CASE search = "ok" ->
                     [ret |-> KeyOnLine(s1.lines, str(tempo_worklog_id[1])), st |-> s1]
                [] search = "fault" ->
                     [ret |-> TRUE,
                      st |-> Collect(c, s1, "Odoo error during duplicate check", "normal")]
                [] OTHER -> [ret |-> TRUE, st |-> s1]

\* OdooClient.check_existing_worklogs_by_worklog_id
check_existing_worklogs_by_worklog_id(c, st, tempo_worklog_id, auth, search) ==
    IF ~TruthyInt(tempo_worklog_id) THEN [ret |-> FALSE, st |-> st]
    ELSE LET cn == connect(c, st, auth) IN
         IF ~cn.ret THEN [ret |-> FALSE, st |-> cn.st]
         ELSE LET s1 == Call(cn.st, "search") IN
              CASE search = "ok" ->
                     [ret |-> KeyOnLine(s1.lines, str(tempo_worklog_id[1])), st |-> s1]
                [] search = "fault" ->
                     [ret |-> FALSE,
                      st |-> Collect(c, s1, "Odoo error during duplicate check", "normal")]
                [] OTHER -> [ret |-> FALSE, st |-> s1]

\* Responses of one hr.employee search: it raises, or returns the ids found.
EmployeeSearchResponses ==
    {[err |-> TRUE, id |-> Nil], [err |-> FALSE, id |-> Nil], [err |-> FALSE, id |-> <<7>>]}

\* A search order with the name first.  Used to show that
\* C28_SearchPriority depends on the order of the pairs.
EmployeeSearchOrderNameFirst(account_id, email, name) ==
    << [field |-> "name", value |-> name],
       [field |-> "work_email", value |-> email],
       [field |-> "x_jira_employee_id", value |-> account_id] >>

\* The (field, value) pairs resolve_employee_id searches, in its order.
EmployeeSearchOrder(account_id, email, name) ==
    << [field |-> "x_jira_employee_id", value |-> account_id],
       [field |-> "work_email", value |-> email],
       [field |-> "name", value |-> name] >>

\* FALLBACK_EMPLOYEE_ID or None
FallbackOrNone(fallback) == IF fallback # 0 THEN <<fallback>> ELSE Nil

CachePut(cache, key, v) ==
    [k \in (DOMAIN cache) \cup {key} |-> IF k = key THEN v ELSE cache[k]]

\* The entry of the call log for the hr.employee search on `field`.
EmployeeSearchCall(field) ==
    CASE field = "x_jira_employee_id" -> "employee_search:x_jira_employee_id"
      [] field = "work_email" -> "employee_search:work_email"
      [] OTHER -> "employee_search:name"

\* The search loop of resolve_employee_id from position k on.
RECURSIVE EmployeeSearchLoop(_, _, _, _, _, _, _)
EmployeeSearchLoop(c, st, order, k, cache_key, fallback, emp) ==
    IF k > Len(order) THEN
        LET emp_id == FallbackOrNone(fallback) IN
        IF TruthyStr(cache_key) /\ TruthyInt(emp_id) THEN
            [ret |-> emp_id,
             st |-> Collect(c, [st EXCEPT !.cache = CachePut(@, cache_key, emp_id[1])],
                            "Using FALLBACK_EMPLOYEE_ID", "normal")]
        ELSE [ret |-> emp_id, st |-> st]
    ELSE IF ~TruthyStr(order[k].value) THEN
        EmployeeSearchLoop(c, st, order, k + 1, cache_key, fallback, emp)
    ELSE LET s1 == Call(st, EmployeeSearchCall(order[k].field))
             r == emp[order[k].field] IN
         IF ~r.err /\ r.id # Nil THEN
             [ret |-> r.id,
              st |-> IF TruthyStr(cache_key)
                     THEN [s1 EXCEPT !.cache = CachePut(@, cache_key, r.id[1])]
                     ELSE s1]
         ELSE EmployeeSearchLoop(c, s1, order, k + 1, cache_key, fallback, emp)

StrOr(a, b) == IF TruthyStr(a) THEN a ELSE b

\* The identifiers resolve_employee_id extracts from jira_author, which is
\* [kind, accountId, id, email, emailAddress, displayName, name, text]:
\* kind tells a dict from a str (then text is the string) from any other
\* value.
AuthorAccountId(jira_author) ==
    IF jira_author.kind = "dict" THEN StrOr(jira_author.accountId, jira_author.id)
    ELSE jira_author.text

AuthorEmail(jira_author) ==
    IF jira_author.kind = "dict" THEN StrOr(jira_author.email, jira_author.emailAddress)
    ELSE None

AuthorName(jira_author) ==
    IF jira_author.kind = "dict" THEN StrOr(jira_author.displayName, jira_author.name)
    ELSE None

\* cache_key = account_id or email or name
CacheKey(jira_author) ==
    StrOr(AuthorAccountId(jira_author),
          StrOr(AuthorEmail(jira_author), AuthorName(jira_author)))

\* A cache that is never hit.  Used to show that C29_MatchedIdIsCached
\* depends on the cache lookup.
NeverCacheHit(cache, cache_key) == FALSE

\* if cache_key in self._employee_cache
CacheHit(cache, cache_key) == cache_key \in DOMAIN cache

\* OdooClient.resolve_employee_id.
resolve_employee_id(c, st, jira_author, fallback, auth, emp) ==
    LET cn == connect(c, st, auth) IN
    IF ~cn.ret THEN [ret |-> FallbackOrNone(fallback), st |-> cn.st]
    ELSE IF jira_author.kind \notin {"dict", "str"} THEN
        [ret |-> FallbackOrNone(fallback), st |-> cn.st]
    ELSE LET account_id == AuthorAccountId(jira_author)
             email == AuthorEmail(jira_author)
             name == AuthorName(jira_author)
             cache_key == CacheKey(jira_author)
         IN IF CacheHit(cn.st.cache, cache_key)
            THEN [ret |-> <<cn.st.cache[cache_key]>>, st |-> cn.st]
            ELSE EmployeeSearchLoop(c, cn.st, EmployeeSearchOrder(account_id, email, name),
                                    1, cache_key, fallback, emp)

\* Responses of the project.task read and of the account.analytic.line create.
ReadResponses == {"found", "found_no_project", "missing", "fault", "exc"}
CreateResponses == {"id", "not_int", "fault", "denied", "exc"}

\* The remote responses one create_timesheet_entry call may consume.
CreateEnvs ==
    [auth : AuthResponses,
     emp : [{"x_jira_employee_id", "work_email", "name"} -> EmployeeSearchResponses],
     read : ReadResponses, create : CreateResponses]

\* The project the task read reports (project_id of the task).
ProjectOf(read) == IF read = "found" THEN <<5>> ELSE Nil

\* A read whose result is never taken as empty.  Used to show that
\* C27_TaskNotFound depends on the guard on the result of the read.
TaskAlwaysFound(read) == FALSE

\* The guard on the result of the read: its first item is not a dict.
TaskNotFound(read) == read = "missing"

\* A line payload without the idempotency key.  Used to show that
\* C26_CreatedKeyIsFound depends on the key being written on the line.
NoKeyAttribute(tempo_worklog_id) == None

\* The x_jira_worklog_id entry of the line payload: str(tempo_worklog_id)
\* when the id is given, otherwise the payload has no such entry.
KeyAttribute(tempo_worklog_id) ==
    IF TruthyInt(tempo_worklog_id) THEN str(tempo_worklog_id[1]) ELSE None

\* OdooClient.create_timesheet_entry, its parameters in p:
\* [task_id, hours, description, work_date, tempo_worklog_id, model_type,
\*  jira_author, employee_id].
create_timesheet_entry(c, st, p, fallback, env) ==
    LET cn == connect(c, st, env.auth) IN
    IF ~cn.ret THEN
        [ret |-> Nil, raised |-> None,
         st |-> Collect(c, cn.st, "Odoo models unavailable during timesheet creation",
                        "critical")]
    ELSE
    LET s1 == IF p.model_type # ProjectTask
              THEN Collect(c, cn.st, "Only 'project.task' is supported", "normal")
              ELSE cn.st
        work_date == IF p.work_date = None THEN "today" ELSE p.work_date
        er == IF TruthyInt(p.employee_id)
              THEN [ret |-> p.employee_id, st |-> s1]
              ELSE resolve_employee_id(c, s1, p.jira_author, fallback, env.auth, env.emp)
        emp_id == er.ret
    IN
    IF ~TruthyInt(emp_id) THEN
        [ret |-> Nil, raised |-> None,
         st |-> Collect(c, er.st, "Timesheet skipped (no employee_id)", "normal")]
    ELSE
    LET s2 == Call(er.st, "read:project.task") IN
    CASE env.read = "fault" ->
           [ret |-> Nil, raised |-> None,
            st |-> Collect(c, s2, "Odoo connection error during timesheet creation",
                           "critical")]
      [] env.read = "exc" ->
           [ret |-> Nil, raised |-> None,
            st |-> Collect(c, s2, "Odoo error during timesheet creation", "critical")]
      [] TaskNotFound(env.read) ->
           [ret |-> Nil, raised |-> None,
            st |-> Collect(c, s2, "Odoo Task Not Found", "normal")]
      [] OTHER ->
           LET worklog_data ==
                   [task_id |-> p.task_id[1],
                    project_id |-> ProjectOf(env.read),
                    name |-> p.description,
                    unit_amount |-> p.hours,
                    date |-> work_date,
                    employee_id |-> emp_id[1],
                    x_jira_worklog_id |-> KeyAttribute(p.tempo_worklog_id)]
               s3 == Call(s2, "create:account.analytic.line")
           IN
           CASE env.create = "id" ->
                  [ret |-> <<Len(s3.lines) + 1>>, raised |-> None,
                   st |-> [s3 EXCEPT !.lines = Append(@, worklog_data)]]
             [] env.create = "not_int" ->
                  [ret |-> Nil, raised |-> None,
                   st |-> [s3 EXCEPT !.lines = Append(@, worklog_data)]]
             [] env.create = "fault" ->
                  [ret |-> Nil, raised |-> None,
                   st |-> Collect(c, s3, "Odoo connection error during timesheet creation",
                                  "critical")]
             [] env.create = "denied" ->
                  [ret |-> Nil, raised |-> None,
                   st |-> Collect(c, s3, "Odoo permission error during timesheet creation",
                                  "critical")]
             [] OTHER ->
                  [ret |-> Nil, raised |-> None,
                   st |-> Collect(c, s3, "Odoo error during timesheet creation", "critical")]

(***************************************************************************)
(* jira.py                                                                 *)
(***************************************************************************)

\* extract_odoo_task_id_from_url: (task_id, model_type), (None, None) being
\* [task_id |-> Nil, model_type |-> Nil].
extract_odoo_task_id_from_url(odoo_url) ==
    LET none == [task_id |-> Nil, model_type |-> Nil] IN
    IF odoo_url = <<>> THEN none
    ELSE IF Find(odoo_url, TokId) = 0 THEN none
    ELSE LET n == IntOf(Split(Split(odoo_url, TokId)[2], TokAmp)[1]) IN
         IF ~n.ok THEN none
         ELSE [task_id |-> <<n.val>>,
               model_type |->
                   IF Find(odoo_url, TokModel) # 0
                   THEN Replace(Split(Split(odoo_url, TokModel)[2], TokAmp)[1],
                                TokPct2E, TokDot)
                   ELSE ProjectTask]

\* A response of GET /rest/api/3/issue/<key>: requests.get raises `error`
\* (None when it returns), else the response carries `status` and, as JSON,
\* the fields summary ("absent" when the key is missing), customfield_10134
\* (the Odoo URL), parent and customfield_10014 (keys of the parent).
IssueResponse(error, status, summary, url, parent, epic_link) ==
    [error |-> error, status |-> status,
     fields |-> [summary |-> summary, customfield_10134 |-> url,
                 parent |-> parent, customfield_10014 |-> epic_link]]

NoFields == [summary |-> "absent", customfield_10134 |-> <<>>,
             parent |-> None, customfield_10014 |-> None]

\* What a call of email_notifier.<method> raises: AttributeError for a
\* method class EmailNotifier does not define.
NotifierCallRaises(method) ==
    IF method \in NotifierMethods THEN None ELSE "AttributeError"

\* response.raise_for_status()
raise_for_status(status) == IF status >= 400 THEN "HTTPError" ELSE None

\* The branches without the test for 404.  Used to show that
\* C9_NotFoundIsSilent depends on that test.
IssueStatusBranchWithout404(resp) ==
    IF resp.error # None THEN resp.error
    ELSE IF resp.status = 401 THEN "auth"
    ELSE IF raise_for_status(resp.status) # None THEN raise_for_status(resp.status)
    ELSE "ok"

\* The branch get_issue_with_odoo_url takes on a response, before it reads
\* the JSON: the exception requests.get raised, "auth" (401), "not_found"
\* (404), the HTTPError of raise_for_status, or "ok".
IssueStatusBranch(resp) ==
    IF resp.error # None THEN resp.error
    ELSE IF resp.status = 401 THEN "auth"
    ELSE IF resp.status = 404 THEN "not_found"
    ELSE IF raise_for_status(resp.status) # None THEN raise_for_status(resp.status)
    ELSE "ok"

\* The exceptions requests raises that are RequestException (ConnectionError
\* and Timeout have handlers of their own, with the same body).
RequestExceptions == {"ConnectionError", "Timeout", "HTTPError", "RequestException"}

\* The return value None of the two issue lookups.
NoIssue == [isNone |-> TRUE, key |-> None, odoo_url |-> <<>>, summary |-> None,
            task_source |-> None, epic_key |-> None]

\* A parent lookup that goes on to the parent's own parent when the parent
\* has no link, and finds one there.  Used to show that
\* C30_OneLevelOfParents depends on the lookup stopping at the parent.
GetEpicFollowingParents(st, epic_key, resp) ==
    LET s1 == Call(st, "epic_get") IN
    IF resp.error # None \/ raise_for_status(resp.status) # None
    THEN [ret |-> NoIssue, st |-> s1]
    ELSE IF resp.fields.customfield_10134 # <<>>
    THEN [ret |-> [NoIssue EXCEPT !.isNone = FALSE, !.key = epic_key,
                                  !.odoo_url = resp.fields.customfield_10134],
          st |-> s1]
    ELSE IF TruthyStr(resp.fields.parent)
    THEN [ret |-> [NoIssue EXCEPT !.isNone = FALSE, !.key = resp.fields.parent,
                                  !.odoo_url = UrlTask],
          st |-> Call(s1, "epic_get")]
    ELSE [ret |-> NoIssue, st |-> s1]

\* get_epic_odoo_url
get_epic_odoo_url(st, epic_key, resp) ==
    LET s1 == Call(st, "epic_get") IN
    IF resp.error # None \/ raise_for_status(resp.status) # None
    THEN [ret |-> NoIssue, st |-> s1]
    ELSE IF resp.fields.customfield_10134 # <<>>
    THEN [ret |-> [NoIssue EXCEPT !.isNone = FALSE, !.key = epic_key,
                                  !.odoo_url = resp.fields.customfield_10134,
                                  !.summary = IF resp.fields.summary = "absent"
                                              THEN "" ELSE resp.fields.summary],
          st |-> s1]
    ELSE [ret |-> NoIssue, st |-> s1]

\* fields.get('summary', f'Work on {issue_key}')
IssueTitle(issue_key, fields) ==
    IF fields.summary = "absent" THEN "Work on " \o issue_key ELSE fields.summary

\* A lookup that never takes the link of the issue itself.  Used to show
\* that C7_DirectLinkWins depends on the order of the two branches.
NoDirectLink(fields) == FALSE

\* if odoo_url:
HasDirectLink(fields) == fields.customfield_10134 # <<>>

\* fields.get('parent'), else fields.get('customfield_10014')
ParentRef(fields) ==
    IF TruthyStr(fields.parent) THEN fields.parent ELSE fields.customfield_10014

\* The dict returned for a link found on the issue itself.
DirectMapping(issue_key, fields) ==
    [isNone |-> FALSE, key |-> issue_key, odoo_url |-> fields.customfield_10134,
     summary |-> IssueTitle(issue_key, fields), task_source |-> "direct",
     epic_key |-> None]

\* The dict of a parent link with the summary of the parent.  Used to show
\* that C8_ParentLinkKeepsItemTitle depends on where the summary is read.
EpicMappingWithEpicTitle(issue_key, fields, epic_key, epic_data) ==
    [isNone |-> FALSE, key |-> issue_key, odoo_url |-> epic_data.odoo_url,
     summary |-> epic_data.summary, task_source |-> "epic", epic_key |-> epic_key]

\* The dict returned for a link found on the parent.
EpicMapping(issue_key, fields, epic_key, epic_data) ==
    [isNone |-> FALSE, key |-> issue_key, odoo_url |-> epic_data.odoo_url,
     summary |-> IssueTitle(issue_key, fields), task_source |-> "epic",
     epic_key |-> epic_key]

\* get_issue_with_odoo_url: [ret, raised, st]; raised names the exception
\* that leaves the function.
get_issue_with_odoo_url(st, issue_key, resp, epic_resp) ==
    LET s1 == Call(st, "issue_get")
        branch == IssueStatusBranch(resp)
    IN
    IF branch = "auth" THEN
        \* send_error_email is called inside the try block: the exception it
        \* raises is caught by `except Exception`, which returns None
        [ret |-> NoIssue, raised |-> None, st |-> s1]
    ELSE IF branch = "not_found" THEN
        [ret |-> NoIssue, raised |-> None, st |-> s1]
    ELSE IF branch \in RequestExceptions THEN
        \* send_error_email is called inside the except clause: the exception
        \* it raises leaves the function
        [ret |-> NoIssue, raised |-> NotifierCallRaises("send_error_email"), st |-> s1]
    ELSE IF HasDirectLink(resp.fields) THEN
        [ret |-> DirectMapping(issue_key, resp.fields), raised |-> None, st |-> s1]
    ELSE IF TruthyStr(ParentRef(resp.fields)) THEN
        LET epic_key == ParentRef(resp.fields)
            e == get_epic_odoo_url(s1, epic_key, epic_resp)
        IN IF ~e.ret.isNone /\ e.ret.odoo_url # <<>>
           THEN [ret |-> EpicMapping(issue_key, resp.fields, epic_key, e.ret),
                 raised |-> None, st |-> e.st]
           ELSE [ret |-> NoIssue, raised |-> None, st |-> e.st]
    ELSE [ret |-> NoIssue, raised |-> None, st |-> s1]

(***************************************************************************)
(* tempo.py                                                                *)
(***************************************************************************)

\* get_tempo_worklogs on a response [error, status, results] of
\* GET /worklogs: [ret, raised].
get_tempo_worklogs(resp) ==
    IF resp.error = None /\ resp.status # 401 /\ raise_for_status(resp.status) = None
    THEN [ret |-> resp.results, raised |-> None]
    \* 401: send_error_email is called inside the try block, the exception it
    \* raises is caught by `except Exception`, whose body calls it again.
    \* Otherwise the except clause of the failure calls it.
    ELSE [ret |-> <<>>, raised |-> NotifierCallRaises("send_error_email")]

\* Responses of the issue lookup by id during enrichment: requests.get
\* raises `error`, or the response has `status` and the JSON key `key`.
EnrichResponses ==
    {[error |-> "ConnectionError", status |-> 0, key |-> None],
     [error |-> None, status |-> 404, key |-> None],
     [error |-> None, status |-> 200, key |-> "K3"],
     [error |-> None, status |-> 200, key |-> None]}

\* enrich_worklogs_with_issue_key: [ret, dropped, raised]; dropped is the
\* return value None.  (The author lookup, which only sets displayName, is
\* taken to answer.)
enrich_worklogs_with_issue_key(worklog, resp) ==
    LET drop == [ret |-> worklog, dropped |-> TRUE, raised |-> None] IN
    IF worklog.issue.kind # "dict" THEN drop
    ELSE IF TruthyStr(worklog.issue.key) THEN
        [ret |-> worklog, dropped |-> FALSE, raised |-> None]
    ELSE IF ~TruthyInt(worklog.issue.id) THEN drop
    ELSE IF resp.error # None \/ raise_for_status(resp.status) # None THEN
        [ret |-> worklog, dropped |-> TRUE,
         raised |-> NotifierCallRaises("send_error_email")]
    ELSE IF worklog.author.kind # "dict" THEN drop
    ELSE [ret |-> [worklog EXCEPT !.issue.key = resp.key],
          dropped |-> FALSE, raised |-> None]

(***************************************************************************)
(* main.py                                                                 *)
(***************************************************************************)

\* The seconds s = 18 (mod 36), 0 < s < 3800, for which round(s / 3600, 2)
\* is the upper hundredth: s / 3600 lies halfway between two hundredths, and
\* round() decides by the binary double nearest to the quotient.
TiesRoundedUp ==
    {18, 90, 126, 198, 234, 306, 342, 414, 486, 594, 702, 810, 918, 954,
     990, 1134, 1170, 1206, 1350, 1386, 1422, 1458, 1602, 1638, 1674, 1818,
     1854, 1890, 1926, 1962, 1998, 2286, 2322, 2358, 2394, 2430, 2466,
     2718, 2754, 2790, 2826, 2862, 2898, 3150, 3186, 3222, 3258, 3294,
     3330, 3366}

\* convert_seconds_to_hours: round(seconds / 3600, 2), in hundredths of an
\* hour.  round() is symmetric about zero.
RoundHundredths(s) ==
    LET q == s \div 36
        r == s % 36
    IN IF r < 18 THEN q
       ELSE IF r > 18 THEN q + 1
       ELSE IF s \in TiesRoundedUp THEN q + 1 ELSE q

convert_seconds_to_hours(seconds) ==
    IF seconds >= 0 THEN RoundHundredths(seconds)
    ELSE 0 - RoundHundredths(0 - seconds)

\* The parameter list the call in sync_tempo_worklogs_to_odoo is written
\* for, with jira_author a fifth positional parameter.  Used to show that
\* C1_NoSecondLineForKey depends on the signature.
CreateParamsAsCalled ==
    <<"task_id", "hours", "description", "work_date", "jira_author",
      "tempo_worklog_id", "model_type">>

\* The positional parameters of OdooClient.create_timesheet_entry after
\* self; jira_author and employee_id are keyword-only.
CreatePositionalParams ==
    <<"task_id", "hours", "description", "work_date", "tempo_worklog_id", "model_type">>

\* A str passed where create_timesheet_entry expects jira_author.
AuthorStr(text) ==
    [kind |-> "str", text |-> text, accountId |-> None, id |-> None, email |-> None,
     emailAddress |-> None, displayName |-> None, name |-> None]

NoAuthor == [AuthorStr(None) EXCEPT !.kind = "none"]

\* Python's binding of positional arguments to the parameters `names`;
\* parameters without an argument take their defaults.
BindCreateArgs(args, names) ==
    LET pos(n) == IF \E k \in 1..Len(names) : names[k] = n
                  THEN CHOOSE k \in 1..Len(names) : names[k] = n ELSE 0
        arg(n, default) == IF pos(n) # 0 /\ pos(n) <= Len(args)
                           THEN args[pos(n)] ELSE default
    IN [task_id |-> arg("task_id", Nil),
        hours |-> arg("hours", 0),
        description |-> arg("description", None),
        work_date |-> arg("work_date", None),
        tempo_worklog_id |-> arg("tempo_worklog_id", Nil),
        model_type |-> arg("model_type", ProjectTask),
        jira_author |-> arg("jira_author", NoAuthor),
        employee_id |-> arg("employee_id", Nil)]

\* The module-level wrapper create_timesheet_entry(*args): the results of
\* odoo_client.create_timesheet_entry(*args) over the remote responses.
\* More positional arguments than parameters raise TypeError.
call_create_timesheet_entry(c, st, args, fallback) ==
    IF Len(args) > Len(CreatePositionalParams)
    THEN {[ret |-> Nil, raised |-> "TypeError", st |-> st]}
    ELSE {create_timesheet_entry(c, st, BindCreateArgs(args, CreatePositionalParams),
                                 fallback, env) : env \in CreateEnvs}

\* Responses of the issue service to the lookup of a work item and of its
\* parent.
IssueResponses ==
    {IssueResponse("ConnectionError", 0, "absent", <<>>, None, None),
     IssueResponse("Timeout", 0, "absent", <<>>, None, None),
     IssueResponse(None, 401, "absent", <<>>, None, None),
     IssueResponse(None, 404, "absent", <<>>, None, None),
     IssueResponse(None, 500, "absent", <<>>, None, None)}
    \cup {IssueResponse(None, 200, s, u, p, e) :
            s \in {"absent", "Item title"}, u \in {<<>>, UrlTask, UrlTicket, UrlNoId},
            p \in {None, "E1"}, e \in {None, "E2"}}

EpicResponses ==
    {IssueResponse("ConnectionError", 0, "absent", <<>>, None, None),
     IssueResponse(None, 404, "absent", <<>>, None, None)}
    \cup {IssueResponse(None, 200, "Epic title", u, p, None) :
            u \in {<<>>, UrlTask, UrlNoId}, p \in {None, "E3"}}

\* A condition that never skips.  Used to show that C2_DuplicateCheckFirst
\* depends on the early return.
NeverSkipAsDuplicate(tempo_worklog_id, exists) == FALSE

\* if tempo_worklog_id and check_existing_worklogs_by_worklog_id(...)
SkipAsDuplicate(tempo_worklog_id, exists) == TruthyInt(tempo_worklog_id) /\ exists

\* A return path of the body of sync_tempo_worklogs_to_odoo.
Path(ret, raised, outcome, dup, st) ==
    [ret |-> ret, raised |-> raised, outcome |-> outcome, dup |-> dup, st |-> st]

\* sync_tempo_worklogs_to_odoo from the create call on.
SyncCreate(c, st, worklog, issue_data, parsed, dup, fallback) ==
    LET model == IF parsed.model_type = HelpdeskTicket THEN HelpdeskTicket ELSE ProjectTask
        hours == convert_seconds_to_hours(worklog.timeSpentSeconds)
        description == issue_data.summary
        date == IF TruthyStr(worklog.startDate) THEN worklog.startDate ELSE "today"
    IN
    IF worklog.author.kind = "none" THEN
        \* author.get on None
        {Path(FALSE, "AttributeError", "Error", dup, st)}
    ELSE
    LET author_name == worklog.author.displayName
        args == <<parsed.task_id, hours, description, date, AuthorStr(author_name),
                  worklog.tempoWorklogId, model>>
    IN {IF r.raised # None THEN Path(FALSE, r.raised, "Error", dup, r.st)
        ELSE IF TruthyInt(r.ret) THEN Path(TRUE, None, "Created", dup, r.st)
        ELSE Path(FALSE, None, "CreateFailed", dup, r.st) :
          r \in call_create_timesheet_entry(c, Call(st, "create_timesheet_entry"),
                                            args, fallback)}

\* The keys of the work items the model's work logs refer to.
IssueKeys == {"K1", "K2", "K3"}

EmptyCalls == [connected |-> FALSE, cache |-> <<>>, errs |-> <<>>, lines |-> <<>>,
               calls |-> <<>>]

\* Per work item key, the results of get_issue_with_odoo_url over the
\* responses of the issue service, each with the result of
\* extract_odoo_task_id_from_url on the URL found.  The lookup changes
\* nothing of the process state but the call log, so it is evaluated once,
\* on an empty log, and its calls are appended where it is used.
IssueLookups ==
    [k \in IssueKeys |->
        {LET g == get_issue_with_odoo_url(EmptyCalls, k, resp, epic) IN
         [ret |-> g.ret, raised |-> g.raised, calls |-> g.st.calls,
          parsed |-> extract_odoo_task_id_from_url(g.ret.odoo_url)] :
           resp \in IssueResponses, epic \in EpicResponses}]

\* A skip that collects a normal error about the missing link.  Used to
\* show that C31_NoMappingIsSilentSkip depends on the branch collecting
\* nothing.
SkipNoMappingRecorded(c, dup, st) ==
    Path(FALSE, None, "SkippedNoMapping", dup, Collect(c, st, "No Odoo URL", "normal"))

\* The branch of a missing mapping: a message is printed and the function
\* returns False.
SkipNoMapping(c, dup, st) == Path(FALSE, None, "SkippedNoMapping", dup, st)

\* sync_tempo_worklogs_to_odoo after the duplicate check returned `d`.
SyncAfterCheck(c, d, worklog, dup, fallback) ==
    LET jira_key == worklog.issue.key IN
    IF SkipAsDuplicate(worklog.tempoWorklogId, d.ret) THEN
        {Path(FALSE, None, "SkippedDuplicate", dup, d.st)}
    ELSE IF ~TruthyStr(jira_key) THEN
        {Path(FALSE, None, "SkippedNoKey", dup, d.st)}
    ELSE UNION {
        LET st == [d.st EXCEPT !.calls = @ \o g.calls] IN
        IF g.raised # None THEN {Path(FALSE, g.raised, "Error", dup, st)}
        ELSE IF g.ret.isNone \/ g.ret.odoo_url = <<>> THEN
            {SkipNoMapping(c, dup, st)}
        ELSE IF ~TruthyInt(g.parsed.task_id) THEN
            {Path(FALSE, None, "SkippedUnresolvedId", dup, st)}
        ELSE SyncCreate(c, st, worklog, g.ret, g.parsed, dup, fallback) :
        g \in IssueLookups[jira_key]}

\* No except clause: the exception leaves the function.  Used to show that
\* C6_ItemFailureNeverAborts depends on the except clause.
ReraiseItemException(path) == path

\* An except clause that returns True.  Used to show that
\* C38_EveryRecordCountedOnce depends on the False the except clause
\* returns.
ItemExceptionAsSynced(path) ==
    IF path.raised # None THEN [path EXCEPT !.raised = None, !.ret = TRUE] ELSE path

\* The except clause of sync_tempo_worklogs_to_odoo: an exception of the
\* body is caught and the function returns False.
HandleItemException(path) ==
    IF path.raised # None THEN [path EXCEPT !.raised = None, !.ret = FALSE] ELSE path

\* sync_tempo_worklogs_to_odoo: its possible results over the remote
\* responses.  dup is the value the duplicate check returned, "not_called"
\* when it was not called; check is what became of its search: the
\* connection was "unavailable", the search "raised" or was "performed".
sync_tempo_worklogs_to_odoo(c, st, worklog, fallback) ==
    LET id == worklog.tempoWorklogId
        s0 == Call(st, "check_existing")
        checks == IF TruthyInt(id)
                  THEN {[d |-> check_existing_worklogs_by_worklog_id(
                                   c, s0, id, auth, search),
                         check |-> IF ~connect(c, s0, auth).ret THEN "unavailable"
                                   ELSE IF search = "ok" THEN "performed"
                                   ELSE "raised"] :
                          auth \in AuthResponses, search \in SearchResponses}
                  ELSE {[d |-> [ret |-> FALSE, st |-> st], check |-> "not_called"]}
    IN UNION {{LET h == HandleItemException(path)
               IN [ret |-> h.ret, raised |-> h.raised, outcome |-> h.outcome,
                   dup |-> h.dup, st |-> h.st, check |-> ck.check] :
                 path \in SyncAfterCheck(c, ck.d, worklog,
                                         IF TruthyInt(id) THEN ToString(ck.d.ret)
                                         ELSE "not_called", fallback)} :
                ck \in checks}

(***************************************************************************)
(* The state machine of main()                                             *)
(***************************************************************************)

Author(accountId, displayName) ==
    [AuthorStr(None) EXCEPT !.kind = "dict", !.accountId = accountId,
                            !.displayName = displayName]

Worklog(id, issue_kind, issue_id, key, seconds, author) ==
    [tempoWorklogId |-> id,
     issue |-> [kind |-> issue_kind, id |-> issue_id, key |-> key],
     timeSpentSeconds |-> seconds, startDate |-> "2024-05-01", author |-> author]

\* The work logs the source service may return.
Worklogs ==
    {Worklog(<<101>>, "dict", <<1>>, "K1", 5400, Author("a1", "Ann")),
     Worklog(<<102>>, "dict", <<2>>, None, 3601, Author("a2", "Bob")),
     Worklog(Nil, "dict", <<3>>, "K2", 1, NoAuthor),
     Worklog(<<103>>, "dict", Nil, None, 900, Author("a1", "Ann"))}

\* The result lists of the source service: up to MaxBatch work logs, each
\* at most once (a work log has one id).
Batches ==
    UNION {{b \in [1..n -> Worklogs] : \A j, k \in 1..n : j # k => b[j] # b[k]} :
             n \in 0..MaxBatch}

\* Responses of GET /worklogs.
TempoResponses ==
    {[error |-> "ConnectionError", status |-> 0, results |-> <<>>],
     [error |-> None, status |-> 401, results |-> <<>>],
     [error |-> None, status |-> 500, results |-> <<>>]}
    \cup {[error |-> None, status |-> 200, results |-> b] : b \in Batches}

\* A timesheet line that carries the idempotency key of work log `id`.
LineOf(id) ==
    [task_id |-> 7346, project_id |-> <<5>>, name |-> "Item title", unit_amount |-> 150,
     date |-> "2024-05-01", employee_id |-> 7, x_jira_worklog_id |-> str(id)]

\* The timesheet lines the target holds when the process starts.
InitialLines == {<<>>, <<LineOf(102)>>}

\* The settings read from the environment: a setting other than `enabled`
\* and the fallback id is TRUE when it is a non-empty text.  EMAIL_SMTP_SERVER
\* has a default, so it is empty only when set to the empty text.
Config(enabled, from_email, password, to_email, fallback) ==
    [enabled |-> enabled, smtp_server |-> TRUE, from_email |-> from_email,
     password |-> password, to_email |-> to_email, fallback_employee_id |-> fallback]

\* Configurations: notification configured, disabled, enabled without a
\* recipient; with and without ODOO_FALLBACK_EMPLOYEE_ID.
Configs ==
    {Config(TRUE, TRUE, TRUE, TRUE, 9), Config(FALSE, TRUE, TRUE, TRUE, 0),
     Config(TRUE, TRUE, TRUE, FALSE, 9)}

NoLast == [calls |-> <<>>, dup |-> "not_called", check |-> "not_called"]
NoFn == [op |-> "none"]

\* The locals of main() before a pass assigns them.
ResetLocals ==
    /\ tempo_worklogs' = <<>>
    /\ enriched' = <<>>
    /\ idx' = 0
    /\ outcomes' = <<>>
    /\ sync_count' = 0
    /\ skip_count' = 0
    /\ last' = NoLast

Init ==
    /\ pc = "idle"
    /\ exit = "none"
    /\ tempo_worklogs = <<>>
    /\ enriched = <<>>
    /\ idx = 0
    /\ outcomes = <<>>
    /\ sync_count = 0
    /\ skip_count = 0
    /\ last = NoLast
    /\ connected = FALSE
    /\ employee_cache = <<>>
    /\ lines \in InitialLines
    /\ sync_errors = <<>>
    /\ sent = <<>>
    /\ cfg \in Configs
    /\ fn = NoFn

\* main(), step 1: get_tempo_worklogs(); an exception ends the pass in
\* main's except clause, an empty list in the early return.
Fetch ==
    /\ pc = "idle"
    /\ \E resp \in TempoResponses :
         LET r == get_tempo_worklogs(resp) IN
         IF r.raised # None THEN
             /\ pc' = "done" /\ exit' = "runtime_error:fetch"
             /\ UNCHANGED tempo_worklogs
         ELSE IF r.ret = <<>> THEN
             /\ pc' = "done" /\ exit' = "no_worklogs"
             /\ UNCHANGED tempo_worklogs
         ELSE
             /\ pc' = "enrich" /\ exit' = "none"
             /\ tempo_worklogs' = r.ret
    /\ UNCHANGED <<enriched, idx, outcomes, sync_count, skip_count, last>>
    /\ UNCHANGED <<odooVars, notifierVars, cfg, fn>>

\* main(), step 1.5: one iteration of the enrichment loop; after the last
\* one the processing loop starts (or, over no record, ends at once).
Enrich ==
    /\ pc = "enrich"
    /\ \E resp \in EnrichResponses :
         LET r == enrich_worklogs_with_issue_key(tempo_worklogs[idx + 1], resp)
             kept == IF r.dropped THEN enriched ELSE Append(enriched, r.ret)
         IN
         IF r.raised # None THEN
             /\ pc' = "done" /\ exit' = "runtime_error:enrich"
             /\ UNCHANGED <<enriched, idx>>
         ELSE IF idx + 1 < Len(tempo_worklogs) THEN
             /\ enriched' = kept /\ idx' = idx + 1
             /\ UNCHANGED <<pc, exit>>
         ELSE
             /\ enriched' = kept /\ idx' = 0
             /\ pc' = IF kept = <<>> THEN "done" ELSE "process"
             /\ exit' = IF kept = <<>> THEN "summary" ELSE "none"
    /\ UNCHANGED <<tempo_worklogs, outcomes, sync_count, skip_count, last>>
    /\ UNCHANGED <<odooVars, notifierVars, cfg, fn>>

\* main(), step 2: one iteration of the processing loop; after the last one
\* the summary is printed.  An exception leaving the call ends the pass in
\* main's except clause.
Process ==
    /\ pc = "process"
    /\ LET st == [connected |-> connected, cache |-> employee_cache,
                  errs |-> sync_errors, lines |-> lines, calls |-> <<>>]
       IN \E r \in sync_tempo_worklogs_to_odoo(cfg, st, enriched[idx + 1],
                                                cfg.fallback_employee_id) :
            /\ connected' = r.st.connected
            /\ employee_cache' = r.st.cache
            /\ sync_errors' = r.st.errs
            /\ lines' = r.st.lines
            /\ last' = [calls |-> r.st.calls, dup |-> r.dup, check |-> r.check]
            /\ outcomes' = Append(outcomes, r.outcome)
            /\ IF r.raised # None THEN
                   /\ pc' = "done" /\ exit' = "runtime_error:process"
                   /\ UNCHANGED <<idx, sync_count, skip_count>>
               ELSE
                   /\ sync_count' = IF r.ret THEN sync_count + 1 ELSE sync_count
                   /\ skip_count' = IF r.ret THEN skip_count ELSE skip_count + 1
                   /\ idx' = idx + 1
                   /\ pc' = IF idx + 1 < Len(enriched) THEN "process" ELSE "done"
                   /\ exit' = IF idx + 1 < Len(enriched) THEN "none" ELSE "summary"
    /\ UNCHANGED <<tempo_worklogs, enriched, sent, cfg, fn>>

\* The next pass: the process has exited (cron_sync.py) and cron starts a
\* new one, whose client and notifier are new objects; the target keeps
\* its lines.
NextPass ==
    /\ pc = "done"
    /\ pc' = "idle"
    /\ exit' = "none"
    /\ ResetLocals
    /\ connected' = FALSE
    /\ employee_cache' = <<>>
    /\ sync_errors' = <<>>
    /\ UNCHANGED <<lines, sent, cfg, fn>>

Next == Fetch \/ Enrich \/ Process \/ NextPass

Spec == Init /\ [][Next]_vars

(***************************************************************************)
(* Function-level specifications: an operation applied to drawn inputs     *)
(***************************************************************************)

\* The variables of main() and of the client, at rest.
AtRest ==
    /\ pc = "idle"
    /\ exit = "none"
    /\ tempo_worklogs = <<>>
    /\ enriched = <<>>
    /\ idx = 0
    /\ outcomes = <<>>
    /\ sync_count = 0
    /\ skip_count = 0
    /\ last = NoLast
    /\ connected = FALSE
    /\ employee_cache = <<>>
    /\ lines = <<>>
    /\ sent = <<>>

\* convert_seconds_to_hours applied to each seconds value in
\* -MaxSeconds..MaxSeconds.
InitHours ==
    /\ AtRest
    /\ sync_errors = <<>>
    /\ cfg \in {Config(FALSE, FALSE, FALSE, FALSE, 0)}
    /\ \E s \in (0 - MaxSeconds)..MaxSeconds :
         fn = [op |-> "convert_seconds_to_hours", seconds |-> s, hours |-> Nil]

ConvertHours ==
    /\ fn.op = "convert_seconds_to_hours"
    /\ fn.hours = Nil
    /\ fn' = [fn EXCEPT !.hours = <<convert_seconds_to_hours(fn.seconds)>>]
    /\ UNCHANGED <<mainVars, odooVars, notifierVars, cfg>>

SpecHours == InitHours /\ [][ConvertHours]_vars

\* An error collected before the lookup.
EarlierError == [severity |-> "normal", context |-> "Odoo Task Not Found"]

\* get_issue_with_odoo_url applied to each key, response of the issue
\* lookup and response of the parent lookup, under each configuration and
\* with an empty and a non-empty error buffer.
InitResolve ==
    /\ AtRest
    /\ cfg \in Configs
    /\ sync_errors \in {<<>>, <<EarlierError>>}
    /\ \E k \in IssueKeys, resp \in IssueResponses, epic \in EpicResponses :
         fn = [op |-> "get_issue_with_odoo_url", done |-> FALSE,
               issue_key |-> k, resp |-> resp, epic |-> epic,
               ret |-> NoIssue, raised |-> None, calls |-> <<>>, errs_before |-> <<>>]

ResolveIssue ==
    /\ fn.op = "get_issue_with_odoo_url"
    /\ ~fn.done
    /\ LET st == [connected |-> connected, cache |-> employee_cache,
                  errs |-> sync_errors, lines |-> lines, calls |-> <<>>]
           r == get_issue_with_odoo_url(st, fn.issue_key, fn.resp, fn.epic)
       IN /\ fn' = [fn EXCEPT !.done = TRUE, !.ret = r.ret, !.raised = r.raised,
                              !.calls = r.st.calls, !.errs_before = sync_errors]
          /\ sync_errors' = r.st.errs
          /\ connected' = r.st.connected
          /\ employee_cache' = r.st.cache
          /\ lines' = r.st.lines
    /\ UNCHANGED <<mainVars, sent, cfg>>

SpecResolve == InitResolve /\ [][ResolveIssue]_vars

(***************************************************************************)
(* Properties of the sync pass (Spec)                                      *)
(***************************************************************************)

\* The idempotency key of enriched record j is on a timesheet line.
KeyExists(j) ==
    /\ TruthyInt(enriched[j].tempoWorklogId)
    /\ KeyOnLine(lines, str(enriched[j].tempoWorklogId[1]))

NoTwoLinesShareKey(ls) ==
    \A j, k \in 1..Len(ls) :
       (j # k /\ ls[j].x_jira_worklog_id # None)
          => ls[j].x_jira_worklog_id # ls[k].x_jira_worklog_id

C2_DuplicateCheckFirst ==
    (pc \in {"process", "done"} /\ outcomes # <<>>
        /\ TruthyInt(enriched[Len(outcomes)].tempoWorklogId))
      => /\ last.calls # <<>>
         /\ last.calls[1] = "check_existing"
         /\ last.dup # "not_called"
         /\ last.dup = "TRUE"
              => /\ outcomes[Len(outcomes)] = "SkippedDuplicate"
                 /\ ~Contains(last.calls, "issue_get")
                 /\ ~Contains(last.calls, "epic_get")
                 /\ ~Contains(last.calls, "create_timesheet_entry")
                 /\ ~Contains(last.calls, "create:account.analytic.line")

\* The duplicate check found the key and the record was skipped.
C2_Witness ==
    /\ pc \in {"process", "done"}
    /\ outcomes # <<>>
    /\ KeyExists(Len(outcomes))
    /\ last.dup = "TRUE"
    /\ last.calls = <<"check_existing", "authenticate", "search">>
    /\ outcomes[Len(outcomes)] = "SkippedDuplicate"

\* The pass of the end-to-end scenario, at its summary: three enriched
\* records, two of them skipped as a duplicate and for a missing mapping,
\* the third (5400 seconds) resolved up to the create call.
C3_Scenario ==
    /\ pc = "done"
    /\ exit = "summary"
    /\ Len(enriched) = 3
    /\ {outcomes[1], outcomes[2]} = {"SkippedDuplicate", "SkippedNoMapping"}
    /\ enriched[3].timeSpentSeconds = 5400
    /\ Contains(last.calls, "create_timesheet_entry")

\* C3: the pass of the end-to-end scenario ends with createdCount = 1 and
\* skippedCount = 2, and exactly one line is created, with hours 1.5.
C3_EndToEnd ==
    C3_Scenario
      => /\ sync_count = 1
         /\ skip_count = 2
         /\ Len(lines) = 2
         /\ lines[2].unit_amount = 150
         /\ Len(SelectSeq(last.calls, LAMBDA n : n = "create:account.analytic.line")) = 1

\* C6: an exception raised while a record is processed never ends the pass:
\* main never reaches its except clause from the processing loop, the loop
\* stands at the first record without an outcome, and at the summary every
\* enriched record has an outcome.
C6_ItemFailureNeverAborts ==
    /\ exit # "runtime_error:process"
    /\ pc = "process" => (idx = Len(outcomes) /\ idx < Len(enriched))
    /\ (pc = "done" /\ exit = "summary")
          => (Len(outcomes) = Len(enriched) /\ sync_count + skip_count = Len(enriched))

\* The processing of the first of three records raised and the two after it
\* were processed.
C6_Witness ==
    /\ pc = "done"
    /\ exit = "summary"
    /\ Len(enriched) = 3
    /\ Len(outcomes) = 3
    /\ outcomes[1] = "Error"

(***************************************************************************)
(* Properties of convert_seconds_to_hours (SpecHours)                      *)
(***************************************************************************)

\* C4: for every seconds > 0 the hours computed are a multiple of 0.25 and
\* at least seconds / 3600 (hours are in hundredths: 0.25 is 25, and
\* hours / 100 >= seconds / 3600 is 36 * hours >= seconds).
C4_RoundUpToQuarterHour ==
    (fn.op = "convert_seconds_to_hours" /\ fn.hours # Nil /\ fn.seconds > 0)
      => /\ fn.hours[1] % 25 = 0
         /\ 36 * fn.hours[1] >= fn.seconds

\* C5: for every seconds <= 0 the hours computed are exactly 0.0.
C5_NonPositiveIsZero ==
    (fn.op = "convert_seconds_to_hours" /\ fn.hours # Nil /\ fn.seconds <= 0)
      => fn.hours[1] = 0

(***************************************************************************)
(* Properties of get_issue_with_odoo_url (SpecResolve)                     *)
(***************************************************************************)

\* The lookup has returned or raised.
Resolved == fn.op = "get_issue_with_odoo_url" /\ fn.done

\* The issue service answered the lookup of the item with 200.
ItemFound == fn.resp.error = None /\ fn.resp.status = 200

\* The issue service answered the lookup of the parent with 200 and a
\* non-empty link.
ParentHasLink ==
    /\ fn.epic.error = None
    /\ fn.epic.status = 200
    /\ fn.epic.fields.customfield_10134 # <<>>

\* C7: for a work item whose own linking field is non-empty the lookup
\* returns a direct mapping carrying the item's own link, whatever its
\* parent has, and the parent is not fetched.
C7_DirectLinkWins ==
    (Resolved /\ ItemFound /\ fn.resp.fields.customfield_10134 # <<>>)
      => /\ fn.raised = None
         /\ ~fn.ret.isNone
         /\ fn.ret.task_source = "direct"
         /\ fn.ret.odoo_url = fn.resp.fields.customfield_10134
         /\ fn.ret.key = fn.issue_key
         /\ fn.calls = <<"issue_get">>

\* The item has a link, and its parent has a different one.
C7_Witness ==
    /\ Resolved
    /\ ItemFound
    /\ fn.resp.fields.customfield_10134 = UrlTicket
    /\ fn.resp.fields.parent = "E1"
    /\ ParentHasLink
    /\ fn.epic.fields.customfield_10134 = UrlTask
    /\ fn.ret.odoo_url = UrlTicket

\* C8: for a work item with an empty linking field and a parent whose
\* linking field is non-empty the lookup returns a mapping via the parent:
\* its link is the parent's, its parent key is the key of the parent, and
\* its title is the item's summary, never the parent's.
C8_ParentLinkKeepsItemTitle ==
    (Resolved /\ ItemFound /\ fn.resp.fields.customfield_10134 = <<>>
        /\ TruthyStr(ParentRef(fn.resp.fields)) /\ ParentHasLink)
      => /\ fn.raised = None
         /\ ~fn.ret.isNone
         /\ fn.ret.task_source = "epic"
         /\ fn.ret.odoo_url = fn.epic.fields.customfield_10134
         /\ fn.ret.epic_key = (IF fn.resp.fields.parent # None
                               THEN fn.resp.fields.parent
                               ELSE fn.resp.fields.customfield_10014)
         /\ fn.ret.key = fn.issue_key
         /\ fn.resp.fields.summary # "absent" => fn.ret.summary = fn.resp.fields.summary
         /\ fn.ret.summary # fn.epic.fields.summary
         /\ fn.calls = <<"issue_get", "epic_get">>

\* An item with a summary and no link, whose parent has a summary and a
\* link.
C8_Witness ==
    /\ Resolved
    /\ ItemFound
    /\ fn.resp.fields.customfield_10134 = <<>>
    /\ fn.resp.fields.parent = "E1"
    /\ fn.resp.fields.summary = "Item title"
    /\ ParentHasLink
    /\ fn.epic.fields.summary = "Epic title"
    /\ fn.ret.task_source = "epic"
    /\ fn.ret.summary = "Item title"

\* C9: a 404 of the issue service makes the lookup return None without
\* raising, and leaves the error buffer as it was.
C9_NotFoundIsSilent ==
    (Resolved /\ fn.resp.error = None /\ fn.resp.status = 404)
      => /\ fn.ret.isNone
         /\ fn.raised = None
         /\ sync_errors = fn.errs_before

\* A 404 with notification configured and an error already in the buffer.
C9_Witness ==
    /\ Resolved
    /\ fn.resp.error = None
    /\ fn.resp.status = 404
    /\ is_configured(cfg)
    /\ fn.errs_before = <<EarlierError>>
    /\ sync_errors = <<EarlierError>>
    /\ fn.ret.isNone

\* C10: a 401 of the issue service, and a network, timeout or other
\* transport failure, append exactly one critical error to the error buffer
\* and make the lookup return None without raising (notification being
\* configured, without which nothing is ever collected).
C10_FailureCollectsOneCritical ==
    (Resolved /\ is_configured(cfg)
        /\ (fn.resp.error # None \/ fn.resp.status \in {401, 500}))
      => /\ fn.ret.isNone
         /\ fn.raised = None
         /\ Len(sync_errors) = Len(fn.errs_before) + 1
         /\ SubSeq(sync_errors, 1, Len(fn.errs_before)) = fn.errs_before
         /\ sync_errors[Len(sync_errors)].severity = "critical"

(***************************************************************************)
(* Properties of extract_odoo_task_id_from_url (SpecParse)                 *)
(***************************************************************************)

\* Numerals after 'id=' with the integer each denotes.
IdParts ==
    {[text |-> <<"7", "3", "4", "6">>, val |-> 7346],
     [text |-> <<"1", "2">>, val |-> 12],
     [text |-> <<"0">>, val |-> 0],
     [text |-> <<"-", "5">>, val |-> 0 - 5],
     [text |-> <<"0", "0", "7">>, val |-> 7]}

\* Values after 'model=' with the entity type each denotes; the empty text
\* stands for a URL without a 'model=' parameter.
ModelParts ==
    {[text |-> ProjectTask, type |-> ProjectTask],
     [text |-> <<"h", "e", "l", "p", "d", "e", "s", "k", "%", "2", "E", "t", "i", "c", "k", "e", "t">>,
      type |-> HelpdeskTicket],
     [text |-> <<"r", "e", "s", ".", "p", "a", "r", "t", "n", "e", "r">>,
      type |-> <<"r", "e", "s", ".", "p", "a", "r", "t", "n", "e", "r">>],
     [text |-> <<>>, type |-> ProjectTask]}

UrlPrefixes == {<<"w", "e", "b", "#">>, <<"h", "t", "t", "p", "s", ":", "/", "/", "o", "/", "w", "e", "b", "#">>}
\* Parameters other than id and model, none of which contains 'id='.
UrlExtras == {<<>>, <<"&", "c", "i", "d", "s", "=", "1">>, <<"&", "v", "i", "e", "w", "=", "f", "o", "r", "m">>}

\* A URL with both parameters, in either order.
UrlOf(prefix, id, model, extra, id_first) ==
    LET idp == TokId \o id.text
        mp == TokModel \o model.text
    IN IF model.text = <<>> THEN prefix \o idp \o extra
       ELSE IF id_first THEN prefix \o idp \o extra \o TokAmp \o mp
       ELSE prefix \o mp \o TokAmp \o idp \o extra

\* References without an 'id=' parameter.
UrlsWithoutId ==
    {UrlNoId, <<>>, <<"w", "e", "b", "#">>,
     <<"w", "e", "b", "#">> \o TokModel \o ProjectTask}

\* extract_odoo_task_id_from_url applied to each URL built from the parts
\* and to each reference without an id.
InitParse ==
    /\ AtRest
    /\ sync_errors = <<>>
    /\ cfg \in {Config(FALSE, FALSE, FALSE, FALSE, 0)}
    /\ \/ \E prefix \in UrlPrefixes, id \in IdParts, model \in ModelParts,
             extra \in UrlExtras, id_first \in BOOLEAN :
            fn = [op |-> "extract_odoo_task_id_from_url", done |-> FALSE,
                  url |-> UrlOf(prefix, id, model, extra, id_first),
                  has_id |-> TRUE, id |-> id.val, type |-> model.type,
                  ret |-> [task_id |-> Nil, model_type |-> Nil]]
       \/ \E url \in UrlsWithoutId :
            fn = [op |-> "extract_odoo_task_id_from_url", done |-> FALSE,
                  url |-> url, has_id |-> FALSE, id |-> 0, type |-> <<>>,
                  ret |-> [task_id |-> Nil, model_type |-> Nil]]

ParseUrl ==
    /\ fn.op = "extract_odoo_task_id_from_url"
    /\ ~fn.done
    /\ fn' = [fn EXCEPT !.done = TRUE, !.ret = extract_odoo_task_id_from_url(fn.url)]
    /\ UNCHANGED <<mainVars, odooVars, notifierVars, cfg>>

SpecParse == InitParse /\ [][ParseUrl]_vars

\* C11: for a reference with an 'id=' parameter the parser returns the
\* integer after 'id=' and the value after 'model=' with '%2E' decoded to
\* '.', or project.task when there is no 'model=' parameter; for a
\* reference without 'id=' it returns (None, None).  The two URLs of the
\* examples give (7346, project.task) and (12, helpdesk.ticket).
C11_ParseTargetRef ==
    (fn.op = "extract_odoo_task_id_from_url" /\ fn.done)
      => /\ fn.has_id => (fn.ret.task_id = <<fn.id>> /\ fn.ret.model_type = fn.type)
         /\ ~fn.has_id => (fn.ret.task_id = Nil /\ fn.ret.model_type = Nil)
         /\ fn.url = UrlTask => (fn.ret.task_id = <<7346>> /\ fn.ret.model_type = ProjectTask)
         /\ fn.url = UrlTicket => (fn.ret.task_id = <<12>> /\ fn.ret.model_type = HelpdeskTicket)
         /\ fn.url = UrlNoId => (fn.ret.task_id = Nil /\ fn.ret.model_type = Nil)

\* The helpdesk URL of the example has been parsed, its type decoded.
C11_Witness ==
    /\ fn.op = "extract_odoo_task_id_from_url"
    /\ fn.done
    /\ fn.url = UrlTicket
    /\ fn.ret = [task_id |-> <<12>>, model_type |-> HelpdeskTicket]

(***************************************************************************)
(* The notifier alone (SpecNotifier): its operations in any order          *)
(***************************************************************************)

MaxErrors == 2
MaxSends == 2

\* The configurations of Configs, and the configured one with each of the
\* server name, the sender and the password empty.
NotifierConfigs ==
    Configs \cup {[Config(TRUE, TRUE, TRUE, TRUE, 9) EXCEPT !.smtp_server = FALSE],
                  Config(TRUE, FALSE, TRUE, TRUE, 9), Config(TRUE, TRUE, FALSE, TRUE, 9)}

\* fn holds the last two operations called and the state before the last.
NotifierCalled(op, raised) ==
    [op |-> "notifier", last |-> op, prev |-> fn.last, raised |-> raised,
     errs_before |-> sync_errors, sent_before |-> sent]

InitNotifier ==
    /\ AtRest
    /\ sync_errors = <<>>
    /\ cfg \in NotifierConfigs
    /\ fn = [op |-> "notifier", last |-> "none", prev |-> "none", raised |-> None,
             errs_before |-> <<>>, sent_before |-> <<>>]

NotifierStart ==
    /\ fn.op = "notifier"
    /\ sync_errors' = start_sync_session(sync_errors)
    /\ fn' = NotifierCalled("start_sync_session", None)
    /\ UNCHANGED <<mainVars, odooVars, sent, cfg>>

NotifierCollect ==
    /\ fn.op = "notifier"
    /\ Len(sync_errors) < MaxErrors
    /\ \E severity \in {"normal", "critical"} :
         sync_errors' = collect_error(cfg, sync_errors, "Notifier test", severity)
    /\ fn' = NotifierCalled("collect_error", None)
    /\ UNCHANGED <<mainVars, odooVars, sent, cfg>>

NotifierSendSummary ==
    /\ fn.op = "notifier"
    /\ Len(sent) < MaxSends
    /\ \E smtp \in SmtpResponses :
         LET r == send_sync_summary_email(cfg, sync_errors, sent, smtp) IN
         /\ sync_errors' = r.errs
         /\ sent' = r.sent
         /\ fn' = NotifierCalled("send_sync_summary_email", r.raised)
    /\ UNCHANGED <<mainVars, odooVars, cfg>>

NotifierSendCritical ==
    /\ fn.op = "notifier"
    /\ Len(sent) < MaxSends
    /\ \E smtp \in SmtpResponses :
         LET r == send_critical_error_immediate(cfg, sync_errors, sent, smtp) IN
         /\ sync_errors' = r.errs
         /\ sent' = r.sent
         /\ fn' = NotifierCalled("send_critical_error_immediate", r.raised)
    /\ UNCHANGED <<mainVars, odooVars, cfg>>

NextNotifier ==
    NotifierStart \/ NotifierCollect \/ NotifierSendSummary \/ NotifierSendCritical

SpecNotifier == InitNotifier /\ [][NextNotifier]_vars

\* C12: a summary over an empty buffer opens no SMTP session; over N > 0
\* collected errors it opens exactly one and leaves the buffer empty,
\* whatever the outcome of the session, so a summary that follows at once
\* opens none.
C12_SummaryFlush ==
    (fn.op = "notifier" /\ fn.last = "send_sync_summary_email")
      => /\ fn.raised = None
         /\ fn.errs_before = <<>> => (sent = fn.sent_before /\ sync_errors = <<>>)
         /\ fn.errs_before # <<>>
              => /\ Len(sent) = Len(fn.sent_before) + 1
                 /\ SubSeq(sent, 1, Len(fn.sent_before)) = fn.sent_before
                 /\ sent[Len(sent)].kind = "summary"
                 /\ sync_errors = <<>>
         /\ fn.prev = "send_sync_summary_email" => sent = fn.sent_before

\* A summary whose session failed was followed at once by a second summary,
\* which opened no session.
C12_Witness ==
    /\ fn.op = "notifier"
    /\ fn.last = "send_sync_summary_email"
    /\ fn.prev = "send_sync_summary_email"
    /\ sent = <<[kind |-> "summary", outcome |-> "failed"]>>
    /\ fn.sent_before = sent
    /\ sync_errors = <<>>

\* Notification is enabled and the server name, the sender, the password
\* and the recipient are all non-empty.
AllTransportSettings(c) ==
    c.enabled /\ c.smtp_server /\ c.from_email /\ c.password /\ c.to_email

\* C18: unless notification is enabled and all four transport settings are
\* non-empty, no SMTP session is ever opened, and each send operation
\* changes nothing and does not raise.
C18_SendsGatedOnAllSettings ==
    (fn.op = "notifier" /\ ~AllTransportSettings(cfg))
      => /\ sent = <<>>
         /\ fn.last \in {"send_sync_summary_email", "send_critical_error_immediate"}
              => /\ fn.raised = None
                 /\ sent = fn.sent_before
                 /\ sync_errors = fn.errs_before

(***************************************************************************)
(* The scheduler (SpecScheduler): main() called repeatedly in one process  *)
(***************************************************************************)

\* The scheduler starts another pass only while the buffer holds at most
\* MaxHeld errors (a bound of the model, not of the code).
MaxHeld == 1

\* run_scheduler: main() has returned and, after the sleep, is called
\* again in the same process; the client and the notifier are the same
\* objects as in the pass before.
SchedulerNextPass ==
    /\ pc = "done"
    /\ Len(sync_errors) <= MaxHeld
    /\ pc' = "idle"
    /\ exit' = "none"
    /\ ResetLocals
    /\ UNCHANGED <<odooVars, notifierVars, cfg, fn>>

NextScheduler == Fetch \/ Enrich \/ Process \/ SchedulerNextPass

SpecScheduler == Init /\ [][NextScheduler]_vars

\* C13: at the start of each pass of a process the error buffer is empty,
\* so it never holds an error collected during an earlier pass.
C13_BufferEmptyAtPassStart ==
    pc = "idle" => sync_errors = <<>>

(***************************************************************************)
(* Properties of the end of a pass (Spec)                                  *)
(***************************************************************************)

\* The summaries among the messages sent.
Summaries == SelectSeq(sent, LAMBDA m : m.kind = "summary")

\* C14: a pass that reached the end of the processing loop has flushed the
\* notifier once: the errors collected during the pass have left the buffer
\* in one summary, and no summary was sent when none was collected.
C14_FlushAtSessionEnd ==
    (pc = "done" /\ exit = "summary")
      => /\ sync_errors = <<>>
         /\ Len(Summaries) <= 1

\* The except clause of main(): every Exception is caught and main returns.
MainExcept(raised) == None

\* run_cron_sync: True when main() returned, False when it raised.
run_cron_sync(raised) == raised = None

\* sys.exit(0 if success else 1)
ExitStatus(success) == IF success THEN 0 ELSE 1

\* The exit status of the cron process after the pass that ended in `e`.
CronExitStatus(e) ==
    ExitStatus(run_cron_sync(MainExcept(
        IF e \in {"runtime_error:fetch", "runtime_error:enrich", "runtime_error:process"}
        THEN "Exception" ELSE None)))

\* C15: when an exception escapes the fetch or the enrich phase a critical
\* report is sent at once and the process exits with a non-zero status; a
\* pass without such an exception exits with status 0.
C15_FatalExitsNonZero ==
    pc = "done"
      => /\ exit \in {"runtime_error:fetch", "runtime_error:enrich"}
              => /\ CronExitStatus(exit) # 0
                 /\ \E k \in 1..Len(sent) : sent[k].kind = "critical"
         /\ exit \in {"summary", "no_worklogs"} => CronExitStatus(exit) = 0

\* C17: a failed key lookup during enrichment drops only its record: the
\* pass never ends in the enrichment loop, and every pass that fetched
\* records goes on to process the records it kept and ends at the summary.
C17_EnrichFailureDropsOneRecord ==
    /\ exit # "runtime_error:enrich"
    /\ (pc = "done" /\ tempo_worklogs # <<>>)
          => (exit = "summary" /\ Len(outcomes) = Len(enriched))

(***************************************************************************)
(* Properties of get_tempo_worklogs (SpecFetch)                            *)
(***************************************************************************)

\* get_tempo_worklogs applied to each response of GET /worklogs, under each
\* configuration and with an empty and a non-empty error buffer.
InitFetch ==
    /\ AtRest
    /\ cfg \in Configs
    /\ sync_errors \in {<<>>} \cup (IF is_configured(cfg) THEN {<<EarlierError>>} ELSE {})
    /\ \E resp \in TempoResponses :
         fn = [op |-> "get_tempo_worklogs", done |-> FALSE, resp |-> resp,
               ret |-> <<>>, raised |-> None, errs_before |-> <<>>]

FetchWorklogs ==
    /\ fn.op = "get_tempo_worklogs"
    /\ ~fn.done
    /\ LET r == get_tempo_worklogs(fn.resp) IN
       fn' = [fn EXCEPT !.done = TRUE, !.ret = r.ret, !.raised = r.raised,
                        !.errs_before = sync_errors]
    /\ UNCHANGED <<mainVars, odooVars, notifierVars, cfg>>

SpecFetch == InitFetch /\ [][FetchWorklogs]_vars

\* C16: on a 401 and on a network, timeout or other transport failure the
\* fetch appends exactly one critical error and returns an empty list
\* without raising (notification being configured).
C16_FetchFailureCollectsOneCritical ==
    (fn.op = "get_tempo_worklogs" /\ fn.done /\ is_configured(cfg)
        /\ (fn.resp.error # None \/ fn.resp.status \in {401, 500}))
      => /\ fn.raised = None
         /\ fn.ret = <<>>
         /\ Len(sync_errors) = Len(fn.errs_before) + 1
         /\ sync_errors[Len(sync_errors)].severity = "critical"

(***************************************************************************)
(* The client alone (SpecClient): its operations in any order, up to       *)
(* MaxOps calls in one process                                             *)
(***************************************************************************)

MaxOps == 3

\* The authors passed to the client: a dict, a str, None.
ClientAuthors == {Author("a1", "Ann"), AuthorStr("a1"), NoAuthor}

\* Responses of the three employee searches of one resolution: none finds
\* an employee, the first finds one, the first raises and the third finds
\* one.
ClientEmployeeEnvs ==
    {[f \in {"x_jira_employee_id", "work_email", "name"} |-> [err |-> FALSE, id |-> Nil]],
     [f \in {"x_jira_employee_id", "work_email", "name"} |->
        IF f = "x_jira_employee_id" THEN [err |-> FALSE, id |-> <<7>>]
        ELSE [err |-> FALSE, id |-> Nil]],
     [f \in {"x_jira_employee_id", "work_email", "name"} |->
        IF f = "x_jira_employee_id" THEN [err |-> TRUE, id |-> Nil]
        ELSE IF f = "name" THEN [err |-> FALSE, id |-> <<7>>]
        ELSE [err |-> FALSE, id |-> Nil]]}

\* The responses one create_timesheet_entry call consumes: each response of
\* authenticate, of the employee searches with each response of the read,
\* and each response of the create.
ClientCreateEnvs ==
    {[auth |-> a, emp |-> e, read |-> "found", create |-> "id"] :
        a \in AuthResponses, e \in {CHOOSE x \in ClientEmployeeEnvs : x["name"].id # Nil}}
    \cup {[auth |-> "uid", emp |-> e, read |-> r, create |-> "id"] :
             e \in ClientEmployeeEnvs, r \in ReadResponses}
    \cup {[auth |-> "uid", emp |-> e, read |-> "found", create |-> c] :
             e \in {CHOOSE x \in ClientEmployeeEnvs : x["name"].id # Nil},
             c \in CreateResponses}

\* Arguments of create_timesheet_entry: a task and a helpdesk ticket.
ClientCreateParams ==
    {[task_id |-> <<7346>>, hours |-> 150, description |-> "Item title",
      work_date |-> "2024-05-01", tempo_worklog_id |-> <<101>>,
      model_type |-> m, jira_author |-> Author("a1", "Ann"), employee_id |-> Nil] :
       m \in {ProjectTask, HelpdeskTicket}}

\* The process state the client operations take.
ClientState ==
    [connected |-> connected, cache |-> employee_cache, errs |-> sync_errors,
     lines |-> lines, calls |-> <<>>]

\* fn after the call of `name` that returned r: the result (ret_bool of
\* connect and of the duplicate check, ret_id of the two others), the calls
\* made, whether the client was connected before the call, whether a
\* connect() of this process had failed before it, the length of the error
\* buffer and the employee cache before it, the idempotency keys for which
\* a create call of this process has returned a line id, and (set by the
\* action) the argument of the call and the remote responses it drew.
ClientCalled(name, r, ret_bool, ret_id) ==
    [op |-> "client", n |-> fn.n + 1, last |-> name,
     ret_bool |-> ret_bool, ret_id |-> ret_id, calls |-> r.st.calls,
     was_connected |-> connected,
     failed_before |-> fn.failed_now,
     failed_now |-> (fn.failed_now
                       \/ (Contains(r.st.calls, "authenticate") /\ ~r.st.connected)),
     errs_before |-> Len(sync_errors), cache_before |-> employee_cache,
     created |-> fn.created, arg |-> <<>>, env |-> <<>>]

ClientEffect(r) ==
    /\ connected' = r.st.connected
    /\ employee_cache' = r.st.cache
    /\ sync_errors' = r.st.errs
    /\ lines' = r.st.lines
    /\ UNCHANGED <<mainVars, sent, cfg>>

InitClient ==
    /\ AtRest
    /\ sync_errors = <<>>
    /\ cfg \in Configs
    /\ fn = [op |-> "client", n |-> 0, last |-> "none", ret_bool |-> FALSE,
             ret_id |-> Nil, calls |-> <<>>, was_connected |-> FALSE,
             failed_before |-> FALSE, failed_now |-> FALSE, errs_before |-> 0,
             cache_before |-> <<>>, created |-> {}, arg |-> <<>>, env |-> <<>>]

ClientConnect ==
    /\ fn.op = "client" /\ fn.n < MaxOps
    /\ \E auth \in AuthResponses :
         LET r == connect(cfg, ClientState, auth) IN
         /\ fn' = ClientCalled("connect", r, r.ret, Nil)
         /\ ClientEffect(r)

ClientCheckExisting ==
    /\ fn.op = "client" /\ fn.n < MaxOps
    /\ \E id \in {<<101>>, <<102>>}, auth \in AuthResponses, search \in SearchResponses :
         LET r == check_existing_worklogs_by_worklog_id(cfg, ClientState, id, auth, search)
         IN /\ fn' = [ClientCalled("check_existing_worklogs_by_worklog_id", r, r.ret, Nil)
                         EXCEPT !.arg = <<id>>, !.env = <<search>>]
            /\ ClientEffect(r)

ClientResolveEmployee ==
    /\ fn.op = "client" /\ fn.n < MaxOps
    /\ \E author \in ClientAuthors, auth \in AuthResponses, emp \in ClientEmployeeEnvs :
         LET r == resolve_employee_id(cfg, ClientState, author,
                                      cfg.fallback_employee_id, auth, emp)
         IN /\ fn' = [ClientCalled("resolve_employee_id", r, FALSE, r.ret)
                         EXCEPT !.arg = <<author>>, !.env = <<emp>>]
            /\ ClientEffect(r)

ClientCreate ==
    /\ fn.op = "client" /\ fn.n < MaxOps
    /\ \E p \in ClientCreateParams, env \in ClientCreateEnvs :
         LET r == create_timesheet_entry(cfg, ClientState, p, cfg.fallback_employee_id, env)
         IN /\ r.raised = None
            /\ fn' = [ClientCalled("create_timesheet_entry", r, FALSE, r.ret)
                         EXCEPT !.arg = <<p>>, !.env = <<env>>,
                                !.created = IF r.ret # Nil
                                            THEN @ \cup {p.tempo_worklog_id} ELSE @]
            /\ ClientEffect(r)

NextClient == ClientConnect \/ ClientCheckExisting \/ ClientResolveEmployee \/ ClientCreate

SpecClient == InitClient /\ [][NextClient]_vars

\* C19: once connect() has returned true the client stays connected: no
\* later operation of the process calls authenticate, and connect() returns
\* true.
C19_ConnectOnce ==
    (fn.op = "client" /\ fn.last # "none" /\ fn.was_connected)
      => /\ connected
         /\ ~Contains(fn.calls, "authenticate")
         /\ fn.last = "connect" => fn.ret_bool

\* A timesheet line was created over the connection an earlier operation
\* had established.
C19_Witness ==
    /\ fn.op = "client"
    /\ fn.was_connected
    /\ fn.last = "create_timesheet_entry"
    /\ fn.calls = <<"employee_search:x_jira_employee_id", "read:project.task",
                    "create:account.analytic.line">>
    /\ fn.ret_id # Nil

\* The remote calls of the client other than authenticate.
RemoteDataCalls ==
    {"search", "employee_search:x_jira_employee_id", "employee_search:work_email",
     "employee_search:name", "read:project.task", "create:account.analytic.line"}

\* C20: a failed connect() appends one critical error (notification being
\* configured) and returns false, and every operation of the client called
\* after it returns its failure value, false or None, without a search,
\* read or create call.
C20_FailedConnectShortCircuits ==
    (fn.op = "client" /\ fn.last # "none")
      => /\ (fn.last = "connect" /\ ~fn.ret_bool /\ is_configured(cfg))
              => /\ Len(sync_errors) = fn.errs_before + 1
                 /\ sync_errors[Len(sync_errors)].severity = "critical"
         /\ (fn.failed_before /\ fn.last # "connect")
              => /\ ~fn.ret_bool
                 /\ fn.ret_id = Nil
                 /\ \A k \in 1..Len(fn.calls) : fn.calls[k] \notin RemoteDataCalls

(***************************************************************************)
(* Properties of employee resolution and of the target entity              *)
(***************************************************************************)

\* The ids resolve_employee_id may yield for an author: the employee the
\* searches find, or the configured fallback.
ResolvableEmployees == {7} \cup (IF cfg.fallback_employee_id # 0
                                 THEN {cfg.fallback_employee_id} ELSE {})

\* C21: a record that reaches creation (create_timesheet_entry is called
\* for it) has its employee resolved from its author: it ends Created with
\* a line that carries the resolved employee id, or it is skipped as failed,
\* and when the resolution was null no create call was issued; it never
\* ends in an exception of the call.
C21_LineCarriesResolvedEmployee ==
    (pc \in {"process", "done"} /\ outcomes # <<>>
        /\ Contains(last.calls, "create_timesheet_entry"))
      => \/ /\ outcomes[Len(outcomes)] = "Created"
            /\ lines # <<>>
            /\ lines[Len(lines)].employee_id \in ResolvableEmployees
         \/ /\ outcomes[Len(outcomes)] = "CreateFailed"
            /\ (sync_errors # <<>>
                  /\ sync_errors[Len(sync_errors)].context
                        = "Timesheet skipped (no employee_id)")
                 => ~Contains(last.calls, "create:account.analytic.line")

\* C22: with notification configured, every resolve_employee_id call that
\* returns the fallback employee id appends one normal-severity error, and
\* a call that returns a matched employee appends none.
C22_FallbackAlwaysRecorded ==
    (fn.op = "client" /\ fn.last = "resolve_employee_id" /\ is_configured(cfg))
      => /\ (cfg.fallback_employee_id # 0 /\ fn.ret_id = <<cfg.fallback_employee_id>>)
              => /\ Len(sync_errors) = fn.errs_before + 1
                 /\ sync_errors[Len(sync_errors)].severity = "normal"
         /\ fn.ret_id = <<7>> => Len(sync_errors) = fn.errs_before

\* C23: create_timesheet_entry called for a helpdesk ticket does not read
\* the task that has the ticket's numeric id, and a line it creates is not
\* linked to that task.
C23_TicketLineLinksTicket ==
    (fn.op = "client" /\ fn.last = "create_timesheet_entry"
        /\ fn.arg[1].model_type = HelpdeskTicket)
      => /\ ~Contains(fn.calls, "read:project.task")
         /\ Contains(fn.calls, "create:account.analytic.line")
              => lines[Len(lines)].task_id # fn.arg[1].task_id[1]

(***************************************************************************)
(* One execution of main.py from the command line (SpecCli)                *)
(***************************************************************************)

\* The arguments after the program name.
Argvs == {<<>>, <<"--test">>, <<"--test", "x">>, <<"x", "--test">>}

\* A dispatch that ignores the arguments.  Used to show that
\* C24_TestModeSyncsNothing depends on the test of sys.argv[1].
RunModeIgnoringFlag(argv) == "main"

\* The test of sys.argv under __main__.
RunMode(argv) ==
    IF Len(argv) > 0 /\ argv[1] = "--test" THEN "test_connections" ELSE "main"

\* The process before the code under __main__ runs.  fn holds the
\* arguments, the function dispatched to, the remote calls made by
\* test_connections, the number of work logs it retrieved, and the lines
\* of the target at the start.
InitCli ==
    /\ pc = "start"
    /\ exit = "none"
    /\ tempo_worklogs = <<>>
    /\ enriched = <<>>
    /\ idx = 0
    /\ outcomes = <<>>
    /\ sync_count = 0
    /\ skip_count = 0
    /\ last = NoLast
    /\ connected = FALSE
    /\ employee_cache = <<>>
    /\ lines \in InitialLines
    /\ sync_errors = <<>>
    /\ sent = <<>>
    /\ cfg \in Configs
    /\ \E argv \in Argvs :
         fn = [op |-> "cli", argv |-> argv, mode |-> "none", calls |-> <<>>,
               retrieved |-> Nil, lines_before |-> lines]

\* if len(sys.argv) > 1 and sys.argv[1] == "--test": test_connections()
\* else: main()
Dispatch ==
    /\ pc = "start"
    /\ fn.op = "cli"
    /\ fn' = [fn EXCEPT !.mode = RunMode(fn.argv)]
    /\ pc' = IF RunMode(fn.argv) = "test_connections" THEN "test_odoo" ELSE "idle"
    /\ UNCHANGED <<exit, tempo_worklogs, enriched, idx, outcomes, sync_count, skip_count,
                   last, odooVars, notifierVars, cfg>>

\* test_connections, first statement: test_odoo_connection(), which is
\* odoo_client.connect().
TestOdoo ==
    /\ pc = "test_odoo"
    /\ \E auth \in AuthResponses :
         LET r == connect(cfg, ClientState, auth) IN
         /\ fn' = [fn EXCEPT !.calls = @ \o r.st.calls]
         /\ connected' = r.st.connected
         /\ employee_cache' = r.st.cache
         /\ sync_errors' = r.st.errs
         /\ lines' = r.st.lines
    /\ pc' = "test_tempo"
    /\ UNCHANGED <<exit, tempo_worklogs, enriched, idx, outcomes, sync_count, skip_count,
                   last, sent, cfg>>

\* test_connections, the rest: get_tempo_worklogs() and the report of the
\* number of work logs retrieved.  An exception of get_tempo_worklogs is
\* caught nowhere and ends the process.
TestTempo ==
    /\ pc = "test_tempo"
    /\ \E resp \in TempoResponses :
         LET r == get_tempo_worklogs(resp) IN
         /\ fn' = [fn EXCEPT !.calls = Append(@, "worklogs_get"),
                             !.retrieved = IF r.raised = None THEN <<Len(r.ret)>> ELSE Nil]
         /\ exit' = IF r.raised = None THEN "test_done" ELSE "uncaught"
    /\ pc' = "done"
    /\ UNCHANGED <<tempo_worklogs, enriched, idx, outcomes, sync_count, skip_count,
                   last, odooVars, notifierVars, cfg>>

NextCli == Dispatch \/ TestOdoo \/ TestTempo \/ Fetch \/ Enrich \/ Process

SpecCli == InitCli /\ [][NextCli]_vars

C25_ItemExceptionRecordedAndCounted ==
    [][(pc = "process" /\ is_configured(cfg) /\ outcomes' # outcomes
           /\ outcomes'[Len(outcomes')] = "Error")
         => /\ Len(sync_errors') = Len(sync_errors) + 1
            /\ sync_errors'[Len(sync_errors')].severity = "critical"
            /\ skip_count' = skip_count
            /\ sync_count' = sync_count]_vars

\* C26: once create_timesheet_entry has returned a line id for an
\* idempotency key, every later duplicate check for that key that reaches
\* the target (the client is connected and the search answers) returns
\* true.
C26_CreatedKeyIsFound ==
    (fn.op = "client" /\ fn.last = "check_existing_worklogs_by_worklog_id"
        /\ fn.arg[1] \in fn.created /\ connected /\ fn.env[1] = "ok")
      => fn.ret_bool

\* A line was created for key 101 on a target without lines, and the
\* duplicate check for 101 that followed searched and returned true.
C26_Witness ==
    /\ fn.op = "client"
    /\ fn.last = "check_existing_worklogs_by_worklog_id"
    /\ fn.arg = << <<101>> >>
    /\ fn.created = { <<101>> }
    /\ fn.calls = <<"search">>
    /\ fn.ret_bool
    /\ Len(lines) = 1

\* The errors the last client call appended to the buffer.
AddedErrors == SubSeq(sync_errors, fn.errs_before + 1, Len(sync_errors))

\* The notices create_timesheet_entry collects before it reads the task.
EarlierNotices == {"Only 'project.task' is supported", "Using FALLBACK_EMPLOYEE_ID"}

MaxResolves == 2

EmployeeFields == {"x_jira_employee_id", "work_email", "name"}

\* The employee the search on `field` finds, when it finds one.
EmployeeFoundBy(field) ==
    CASE field = "x_jira_employee_id" -> 7
      [] field = "work_email" -> 8
      [] OTHER -> 6

\* Responses of the three employee searches of one resolution: each search
\* raises, finds nothing, or finds its employee.
ResolveEmployeeEnvs ==
    {[f \in EmployeeFields |->
        CASE o[f] = "raise" -> [err |-> TRUE, id |-> Nil]
          [] o[f] = "none" -> [err |-> FALSE, id |-> Nil]
          [] OTHER -> [err |-> FALSE, id |-> <<EmployeeFoundBy(f)>>]] :
       o \in [EmployeeFields -> {"raise", "none", "found"}]}

\* The authors resolved: a dict with account id, e-mail address and name,
\* one with e-mail address and name, one with a name only, a str, None.
ResolveAuthors ==
    {[Author("a1", "Ann") EXCEPT !.emailAddress = "ann@example.org"],
     [Author(None, "Ann") EXCEPT !.emailAddress = "ann@example.org"],
     Author(None, "Ann"),
     AuthorStr("a1"),
     NoAuthor}

\* fn of this specification: the number of calls made, the author and the
\* search responses of the last call, its result and remote calls, the
\* error buffer length and the cache before it, and the ids earlier calls
\* returned from a search, by cache key (before and after the last call).
InitEmployee ==
    /\ AtRest
    /\ sync_errors = <<>>
    /\ cfg \in Configs
    /\ fn = [op |-> "employee", n |-> 0, arg |-> <<>>, env |-> <<>>, ret_id |-> Nil,
             calls |-> <<>>, errs_before |-> 0, cache_before |-> <<>>,
             matched_before |-> <<>>, matched |-> <<>>]

ResolveEmployee ==
    /\ fn.op = "employee" /\ fn.n < MaxResolves
    /\ \E author \in ResolveAuthors, auth \in {"uid", "nouid"}, emp \in ResolveEmployeeEnvs :
         LET r == resolve_employee_id(cfg, ClientState, author,
                                      cfg.fallback_employee_id, auth, emp)
             from_search == /\ r.st.calls # <<>>
                            /\ r.st.calls[Len(r.st.calls)] # "authenticate"
                            /\ r.ret # Nil
                            /\ r.ret[1] \in {EmployeeFoundBy(f) : f \in EmployeeFields}
         IN /\ fn' = [op |-> "employee", n |-> fn.n + 1, arg |-> <<author>>,
                      env |-> <<emp>>, ret_id |-> r.ret, calls |-> r.st.calls,
                      errs_before |-> Len(sync_errors), cache_before |-> employee_cache,
                      matched_before |-> fn.matched,
                      matched |-> IF from_search
                                  THEN CachePut(fn.matched, CacheKey(author), r.ret[1])
                                  ELSE fn.matched]
            /\ ClientEffect(r)

SpecEmployee == InitEmployee /\ [][ResolveEmployee]_vars

\* The value of the identifier of the last call's author searched on `field`.
IdentifierFor(field) ==
    CASE field = "x_jira_employee_id" -> AuthorAccountId(fn.arg[1])
      [] field = "work_email" -> AuthorEmail(fn.arg[1])
      [] OTHER -> AuthorName(fn.arg[1])

\* The priority of a field: 1 is the highest.
Priority(field) ==
    CASE field = "x_jira_employee_id" -> 1 [] field = "work_email" -> 2 [] OTHER -> 3

Searched(field) == Contains(fn.calls, EmployeeSearchCall(field))

\* The identifier for `field` is absent, or its search gave no match (it
\* found nothing or failed).
AbsentOrNoMatch(field) ==
    \/ ~TruthyStr(IdentifierFor(field))
    \/ fn.env[1][field].err
    \/ fn.env[1][field].id = Nil

\* The last call went into the search loop: the client was connected, the
\* author was a dict or a str and its cache key was not in the cache.
ReachedSearch ==
    /\ connected
    /\ fn.arg[1].kind \in {"dict", "str"}
    /\ CacheKey(fn.arg[1]) \notin DOMAIN fn.cache_before

\* C28: resolve_employee_id searches by account id, then by e-mail
\* address, then by name: an identifier is searched exactly when it is
\* present and every identifier of higher priority is absent or gave no
\* match, the searches are made in the order of priority, and the result is
\* what the first search with a match found.
C28_SearchPriority ==
    (fn.op = "employee" /\ fn.n > 0)
      => /\ \A f \in EmployeeFields :
              Searched(f) <=> /\ ReachedSearch
                              /\ TruthyStr(IdentifierFor(f))
                              /\ \A g \in EmployeeFields :
                                    Priority(g) < Priority(f) => AbsentOrNoMatch(g)
         /\ \A j, k \in 1..Len(fn.calls) :
              \A f, g \in EmployeeFields :
                 (j < k /\ fn.calls[j] = EmployeeSearchCall(f)
                        /\ fn.calls[k] = EmployeeSearchCall(g))
                   => Priority(f) < Priority(g)
         /\ \A f \in EmployeeFields :
              (Searched(f) /\ ~AbsentOrNoMatch(f)) => fn.ret_id = fn.env[1][f].id

\* The account id matched nobody, the search by e-mail address failed and
\* the search by name found the employee, although the e-mail address would
\* have been searched before the name.
C28_Witness ==
    /\ fn.op = "employee"
    /\ fn.calls = <<"authenticate", "employee_search:x_jira_employee_id",
                    "employee_search:work_email", "employee_search:name">>
    /\ fn.env[1]["work_email"].err
    /\ fn.ret_id = <<6>>

\* C29: after resolve_employee_id has returned an id found by a search for
\* an author, every later call on the same client whose author has the same
\* cache key (account id, else e-mail address, else name) returns that id
\* and issues no employee search.
C29_MatchedIdIsCached ==
    (fn.op = "employee" /\ fn.n > 0 /\ fn.arg[1].kind \in {"dict", "str"}
        /\ CacheKey(fn.arg[1]) \in DOMAIN fn.matched_before)
      => /\ fn.ret_id = <<fn.matched_before[CacheKey(fn.arg[1])]>>
         /\ \A f \in EmployeeFields : ~Searched(f)
         /\ fn.calls = <<>>

\* The second call, for the account id as a str, returned the employee the
\* first call had found for that key, without a search, although a search
\* would now fail.
C29_Witness ==
    /\ fn.op = "employee"
    /\ fn.n = 2
    /\ fn.arg[1] = AuthorStr("a1")
    /\ DOMAIN fn.matched_before = {"a1"}
    /\ fn.env[1]["x_jira_employee_id"].err
    /\ fn.calls = <<>>
    /\ fn.ret_id = <<7>>

\* C30: one get_issue_with_odoo_url call fetches the work item and at most
\* its direct parent, the item first, and never a third work item; when
\* neither the item nor its parent carries a link the result is None, also
\* when the parent has a parent of its own.
C30_OneLevelOfParents ==
    Resolved
      => /\ fn.calls \in {<<"issue_get">>, <<"issue_get", "epic_get">>}
         /\ (ItemFound /\ fn.raised = None
                /\ fn.resp.fields.customfield_10134 = <<>>
                /\ (Contains(fn.calls, "epic_get")
                      => fn.epic.fields.customfield_10134 = <<>>))
              => fn.ret.isNone

\* The item has no link, its parent was fetched and has none, the parent
\* has a parent of its own, and the result is None after two fetches.
C30_Witness ==
    /\ Resolved
    /\ ItemFound
    /\ fn.resp.fields.customfield_10134 = <<>>
    /\ fn.epic.error = None /\ fn.epic.status = 200
    /\ fn.epic.fields.customfield_10134 = <<>>
    /\ fn.epic.fields.parent = "E3"
    /\ fn.calls = <<"issue_get", "epic_get">>
    /\ fn.ret.isNone

(***************************************************************************)
(* Properties of the skips and counters of the sync pass                   *)
(***************************************************************************)

\* The contexts of the errors the duplicate check may collect.
DuplicateCheckContexts == {"Odoo connect failure", "Odoo error during duplicate check"}

\* C31: the step that processes a record for which no link was found, on
\* the work item or on its parent, counts the record as skipped, issues no
\* create call and adds no line, and appends no error for the missing
\* mapping: the only errors of the step are those of the duplicate check
\* before the lookup.
C31_NoMappingIsSilentSkip ==
    [][(pc = "process" /\ outcomes' # outcomes
           /\ outcomes'[Len(outcomes')] = "SkippedNoMapping")
         => /\ skip_count' = skip_count + 1
            /\ sync_count' = sync_count
            /\ lines' = lines
            /\ ~Contains(last'.calls, "create_timesheet_entry")
            /\ ~Contains(last'.calls, "create:account.analytic.line")
            /\ Len(sync_errors') >= Len(sync_errors)
            /\ \A k \in (Len(sync_errors) + 1)..Len(sync_errors') :
                  sync_errors'[k].context \in DuplicateCheckContexts
            /\ last'.calls[Len(last'.calls)] \in {"issue_get", "epic_get"}]_vars

\* With notification configured, a record's work item and then its parent
\* were fetched, no link was found, the record was skipped and the error
\* buffer is empty.
C31_Witness ==
    /\ pc \in {"process", "done"}
    /\ is_configured(cfg)
    /\ outcomes = <<"SkippedNoMapping">>
    /\ last.calls = <<"check_existing", "authenticate", "search", "issue_get", "epic_get">>
    /\ sync_errors = <<>>
    /\ skip_count = 1
    /\ sync_count = 0

\* C32: the step that processes a record whose link has no id ends
\* SkippedUnresolvedId without a create call, counts the record as skipped,
\* and (notification being configured) appends, after the errors of the
\* duplicate check, exactly one error, of normal severity, for the
\* malformed link.
C32_MissingIdRecordedAndSkipped ==
    [][(pc = "process" /\ is_configured(cfg) /\ outcomes' # outcomes
           /\ outcomes'[Len(outcomes')] = "SkippedUnresolvedId")
         => /\ skip_count' = skip_count + 1
            /\ lines' = lines
            /\ ~Contains(last'.calls, "create_timesheet_entry")
            /\ Len(sync_errors') > Len(sync_errors)
            /\ Len(SelectSeq(SubSeq(sync_errors', Len(sync_errors) + 1, Len(sync_errors')),
                             LAMBDA e : e.context \notin DuplicateCheckContexts)) = 1
            /\ sync_errors'[Len(sync_errors')].severity = "normal"]_vars

\* C33: every result of the parser other than (None, None) has an id
\* greater than 0 and the entity type project.task or helpdesk.ticket; a
\* link with a zero or negative id or with another entity type is a parse
\* failure.
C33_ParsedRefIsValid ==
    (fn.op = "extract_odoo_task_id_from_url" /\ fn.done /\ fn.ret.task_id # Nil)
      => /\ fn.ret.task_id[1] > 0
         /\ fn.ret.model_type \in {ProjectTask, HelpdeskTicket}

\* C34: send_critical_error_immediate leaves the error buffer as it was,
\* appending nothing and clearing nothing; when notification is configured
\* it opens exactly one SMTP session, for the critical report, before it
\* returns, and when it is not configured it opens none.
C34_ImmediateBypassesBuffer ==
    (fn.op = "notifier" /\ fn.last = "send_critical_error_immediate")
      => /\ sync_errors = fn.errs_before
         /\ fn.raised = None
         /\ is_configured(cfg)
              => /\ Len(sent) = Len(fn.sent_before) + 1
                 /\ SubSeq(sent, 1, Len(fn.sent_before)) = fn.sent_before
                 /\ sent[Len(sent)].kind = "critical"
         /\ ~is_configured(cfg) => sent = fn.sent_before

\* With two errors collected, the immediate report was delivered and the
\* two errors are still in the buffer.
C34_Witness ==
    /\ fn.op = "notifier"
    /\ fn.last = "send_critical_error_immediate"
    /\ Len(fn.errs_before) = 2
    /\ sync_errors = fn.errs_before
    /\ sent = <<[kind |-> "critical", outcome |-> "delivered"]>>

(***************************************************************************)
(* utils.py: one `with SyncSession():` block (SpecSession)                 *)
(***************************************************************************)

\* The parameters of send_critical_error_immediate after self.
ImmediateParams == {"error", "context"}

\* SyncSession.__exit__ for a body that ended with exception `exc` (None
\* when it completed): [errs, sent, raised], raised being the exception
\* that leaves the with statement.  The immediate report is called with
\* error and context by position and log_file_path by keyword; a keyword
\* that is no parameter raises TypeError before the function runs.
\* __exit__ returns False, so the exception of the body is not suppressed.
SyncSession_exit(c, errs, mails, exc, smtp) ==
    IF exc # None THEN
        LET keywords == {"log_file_path"}
            r == IF keywords \subseteq ImmediateParams
                 THEN send_critical_error_immediate(c, errs, mails, smtp)
                 ELSE [errs |-> errs, sent |-> mails, raised |-> "TypeError"]
        IN [errs |-> r.errs, sent |-> r.sent,
            raised |-> IF r.raised # None THEN r.raised ELSE exc]
    ELSE [errs |-> errs, sent |-> mails, raised |-> None]

\* How the body of the with block ends: normally, or with an exception.
BodyOutcomes == {None, "RuntimeError", "ConnectionError", "KeyboardInterrupt"}

\* fn holds the position (before __enter__, in the body, after __exit__),
\* the buffer __enter__ found, the outcome of the body and the exception
\* that left the with statement, and the mails sent before __exit__.
InitSession ==
    /\ AtRest
    /\ cfg \in NotifierConfigs
    /\ sync_errors \in {<<>>} \cup (IF is_configured(cfg) THEN {<<EarlierError>>} ELSE {})
    /\ fn = [op |-> "session", at |-> "new", entered_with |-> <<>>, exc |-> None,
             propagated |-> None, sent_before |-> <<>>]

\* SyncSession.__enter__: start_sync_session().
SessionEnter ==
    /\ fn.op = "session" /\ fn.at = "new"
    /\ sync_errors' = start_sync_session(sync_errors)
    /\ fn' = [fn EXCEPT !.at = "body", !.entered_with = sync_errors]
    /\ UNCHANGED <<mainVars, odooVars, sent, cfg>>

\* The body collects an error.
SessionCollect ==
    /\ fn.op = "session" /\ fn.at = "body"
    /\ Len(sync_errors) < MaxErrors
    /\ \E severity \in {"normal", "critical"} :
         sync_errors' = collect_error(cfg, sync_errors, "Session body", severity)
    /\ UNCHANGED <<mainVars, odooVars, sent, cfg, fn>>

\* The body ends and __exit__ runs.
SessionLeave ==
    /\ fn.op = "session" /\ fn.at = "body"
    /\ \E exc \in BodyOutcomes, smtp \in SmtpResponses :
         LET r == SyncSession_exit(cfg, sync_errors, sent, exc, smtp) IN
         /\ sync_errors' = r.errs
         /\ sent' = r.sent
         /\ fn' = [fn EXCEPT !.at = "left", !.exc = exc, !.propagated = r.raised,
                             !.sent_before = sent]
    /\ UNCHANGED <<mainVars, odooVars, cfg>>

NextSession == SessionEnter \/ SessionCollect \/ SessionLeave

SpecSession == InitSession /\ [][NextSession]_vars

\* C35: when the body of the with block raised, __exit__ sends the
\* immediate critical report (notification being configured, one SMTP
\* session of kind critical) and the exception that leaves the with
\* statement is the one the body raised; when the body completed, no
\* report is sent and nothing is raised.
C35_SessionFailureReportedAndPropagated ==
    (fn.op = "session" /\ fn.at = "left")
      => /\ fn.exc # None
              => /\ fn.propagated = fn.exc
                 /\ is_configured(cfg)
                      => /\ Len(sent) = Len(fn.sent_before) + 1
                         /\ sent[Len(sent)].kind = "critical"
         /\ fn.exc = None => (fn.propagated = None /\ sent = fn.sent_before)

\* The remote calls one record may cause.
RecordCalls ==
    {"search", "issue_get", "epic_get", "read:project.task",
     "create:account.analytic.line"}

TimesIssued(calls, name) == Cardinality({k \in 1..Len(calls) : calls[k] = name})

\* A target authentication was attempted for the record just processed
\* and failed.
AuthenticationFailed(l, conn) == Contains(l.calls, "authenticate") /\ ~conn

\* C36: within one sync pass nothing is retried: for each record the
\* duplicate search, the issue fetch, the parent fetch, the target read and
\* the line create are each issued at most once, and after a target
\* authentication failed no later operation of the pass attempts it again.
C36_NoRetry ==
    [][/\ \A name \in RecordCalls : TimesIssued(last'.calls, name) <= 1
       /\ AuthenticationFailed(last, connected)
            => ~Contains(last'.calls, "authenticate")]_vars

\* C37: when the duplicate search of a record cannot be performed (the
\* connection is unavailable or the search raises), the check returns
\* False and the record is not skipped as a duplicate: it goes on to the
\* mapping steps (the issue fetch, when the record has an issue key).
C37_FailedCheckContinues ==
    [][(pc = "process" /\ last'.check \in {"unavailable", "raised"})
         => /\ last'.dup = "FALSE"
            /\ outcomes'[Len(outcomes')] # "SkippedDuplicate"
            /\ TruthyStr(enriched[idx + 1].issue.key)
                 => Contains(last'.calls, "issue_get")]_vars

\* The search raises for a record whose key is on a line of the target,
\* and the record reaches the create call.
C37_Witness ==
    /\ last.check = "raised"
    /\ Contains(last.calls, "create_timesheet_entry")
    /\ idx >= 1 /\ pc = "process"
    /\ KeyOnLine(lines, str(enriched[idx].tempoWorklogId[1]))

\* The records of the pass for which the create call returned a line id.
CreatedRecords == {k \in 1..Len(outcomes) : outcomes[k] = "Created"}

\* C38: at the summary every enriched record has been counted once, as
\* synced or as skipped: the two counts add up to the number of enriched
\* records, and the synced count is the number of records for which the
\* create call returned a line id.
C38_EveryRecordCountedOnce ==
    (pc = "done" /\ exit = "summary")
      => /\ sync_count + skip_count = Len(enriched)
         /\ sync_count = Cardinality(CreatedRecords)

\* The summary of a pass over three records, the last of which reached the
\* create call.
C38_Witness ==
    /\ pc = "done" /\ exit = "summary"
    /\ Len(enriched) = MaxBatch
    /\ skip_count = MaxBatch
    /\ Contains(last.calls, "create_timesheet_entry")
    /\ outcomes[1] = "SkippedDuplicate"

====
